---- MODULE Spec2Model ----
(***************************************************************************)
(* Model of the chert-api socket layer (sockets/socket.handler.ts, shipped *)
(* in src/src/utils/upload.ts lines 58-434), of the startup and the        *)
(* process-level handlers of server.ts (same file, lines 437-495) with     *)
(* connectRedis, and of the REST controllers that change what the socket   *)
(* layer reads: createChat, startChat, addParticipants, removeParticipant  *)
(* (modules/chats/chats.controller.ts), sendMessage and deleteMessage      *)
(* (modules/messages/messages.controller.ts).                              *)
(*                                                                         *)
(* Every `await` of a handler is a step boundary: the action that resumes  *)
(* a suspended handler applies the effect of the awaited persistence call  *)
(* and runs the handler up to its next await (or to its end).  Each        *)
(* persistence call may reject.                                            *)
(***************************************************************************)
EXTENDS Integers, Sequences, FiniteSets, TLC

\* ------------------------------------------------------------------ bounds
MaxSockets == 2      \* connections opened during a run
MaxEvents  == 2      \* inbound client events dispatched during a run

\* ------------------------------------------------------------- the world
Users == {"u1", "u2"}
Accounts == Users \cup {"u3"}        \* the User collection: u3 has an account and opens no connection
Chats == {"c1", "c2"}
ChatOrder == <<"c1", "c2">>          \* order in which Chat.find returns chats
SocketIds == 1..MaxSockets
NoUser == "nouser"
NoChat == "nochat"
NoData == "nodata"                   \* an event sent without a payload object
Statuses == {"away"}

\* what a client presents in handshake.auth.token / the Authorization header:
\* nothing, a token that jwt.verify rejects (forged or expired, claiming to be u1),
\* or a token this server signed for a user
Tokens == {"none", "bad", "tok_u1", "tok_u2"}

\* payloads of send_message: type ("none" = omitted), non-empty content?, fileUrl?
Payloads ==
  { [type |-> "text",  content |-> TRUE,  fileUrl |-> FALSE],
    [type |-> "text",  content |-> FALSE, fileUrl |-> FALSE],
    [type |-> "none",  content |-> FALSE, fileUrl |-> FALSE],
    [type |-> "image", content |-> FALSE, fileUrl |-> FALSE],
    [type |-> "image", content |-> FALSE, fileUrl |-> TRUE] }
NoPayload == [type |-> "none", content |-> FALSE, fileUrl |-> FALSE]

VARIABLES
  conn,            \* per socket: user, connected flag, position of the connection handler, `chats` closure,
                   \* handshake token, and whether its handler created the user's registry entry
  connectedUsers,  \* the connectedUsers map: user -> sequence of socket ids
  rooms,           \* socket.io adapter rooms: chat -> set of socket ids
  tasks,           \* suspended event handlers
  nextId,          \* dispatch sequence number of the next inbound event
  participants,    \* Chat.participants
  messages,        \* Message collection, in creation order
  lastMessage,     \* Chat.lastMessage (0 = unset)
  isOnline,        \* User.isOnline
  chatDoc,         \* per chat: whether the Chat document exists, isGroup, admin and __v
  processExited,   \* process.exit(1) was called
  boot,            \* startup: position of startServer, the Redis client, the adapter, the log
  last,            \* what the last step did and emitted
  inbox            \* per socket: ids of the new_message events received, in order

dbVars   == <<participants, chatDoc, messages, lastMessage, isOnline>>
sockVars == <<conn, connectedUsers, rooms>>
vars == <<conn, connectedUsers, rooms, tasks, nextId, participants, chatDoc, messages,
          lastMessage, isOnline, processExited, boot, last, inbox>>

\* ------------------------------------------------------------ sequences
Range(f) == {f[i] : i \in DOMAIN f}

RECURSIVE SeqFilterOut(_, _)
\* userSockets.filter((u) => u.socketId !== socket.id)
SeqFilterOut(q, s) ==
  IF q = <<>> THEN <<>>
  ELSE IF Head(q) = s THEN SeqFilterOut(Tail(q), s)
       ELSE <<Head(q)>> \o SeqFilterOut(Tail(q), s)

RECURSIVE ChatSeq(_, _)
\* the chats of `set`, in ChatOrder
ChatSeq(order, set) ==
  IF order = <<>> THEN <<>>
  ELSE IF Head(order) \in set THEN <<Head(order)>> \o ChatSeq(Tail(order), set)
       ELSE ChatSeq(Tail(order), set)

\* ------------------------------------------------------------ socket.io
Connected(cn) == {s \in SocketIds : cn[s].open}

\* socket.join(room): the adapter adds the id
SocketJoin(rms, c, s) == [rms EXCEPT ![c] = @ \cup {s}]

\* socket.leave(room)
SocketLeave(rms, c, s) == [rms EXCEPT ![c] = @ \ {s}]

\* on close the socket leaves every room
LeaveAll(rms, s) == [c \in Chats |-> rms[c] \ {s}]

\* the connections an emission to room c reaches: the room's ids that are still connected
RoomMembers(rms, cn, c) == rms[c] \cap Connected(cn)

\* one emit call: the event, the connections it is delivered to, its chatId and its
\* data (message id of new_message / message_sent, status of user_presence, else 0)
Emission(ev, to, c, data) == [ev |-> ev, to |-> to, chat |-> c, data |-> data]

\* io.to(room).emit(ev)
IoToEmit(rms, cn, c, ev, data) == Emission(ev, RoomMembers(rms, cn, c), c, data)

\* socket.to(room).emit(ev): the room except the sending socket
SocketToEmit(rms, cn, s, c, ev, data) == Emission(ev, RoomMembers(rms, cn, c) \ {s}, c, data)

\* socket.emit(ev): dropped when the socket is no longer connected
SocketEmit(cn, s, c, ev, data) == Emission(ev, {s} \cap Connected(cn), c, data)

Step(op, s, c, outcome, emits) ==
  [op |-> op, sock |-> s, chat |-> c, outcome |-> outcome, emits |-> emits]

\* a step that only suspends a handler at an await: nothing is emitted
Pending == Step("await", 0, NoChat, "pending", <<>>)

\* a Chat document as far as the handlers read it besides participants and lastMessage
ChatDoc(g, a, v) == [exists |-> TRUE, isGroup |-> g, admin |-> a, v |-> v]
NoDoc == [exists |-> FALSE, isGroup |-> FALSE, admin |-> NoUser, v |-> 0]

\* c1 is the one-to-one chat of u1 and u2; c2 is a group chat whose admin is u2
StoredChats == [c \in Chats |-> IF c = "c1" THEN ChatDoc(FALSE, NoUser, 0) ELSE ChatDoc(TRUE, "u2", 0)]

\* the server once startServer has run to httpServer.listen without a Redis client
Listening ==
  [pc |-> "listening", redis |-> "refused", pubsub |-> "none",
   redisClient |-> "null", adapter |-> "memory",
   log |-> <<"redis not available", "single-instance mode">>]

\* a suspended handler: `by` and `other` are the requester and the user a REST request
\* names; `doc`, `parts` and `ptr` are what the handler holds of the Chat document it
\* read (ptr: chat.lastMessage)
Task(id, kind, s, c, pc) ==
  [id |-> id, kind |-> kind, sock |-> s, chat |-> c, pc |-> pc,
   payload |-> NoPayload, ids |-> {}, parts |-> {},
   by |-> NoUser, other |-> NoUser, doc |-> NoDoc, ptr |-> 0]

\* ----------------------------------------------------------------- Init
InitConn == [s \in SocketIds |->
               [user |-> NoUser, open |-> FALSE, pc |-> "unused", chats |-> {}, token |-> "none", first |-> FALSE]]

Init ==
  /\ conn = InitConn
  /\ connectedUsers = [u \in Users |-> <<>>]
  /\ rooms = [c \in Chats |-> {}]
  /\ tasks = {}
  /\ nextId = 1
  /\ participants = [c \in Chats |-> IF c = "c1" THEN {"u1", "u2"} ELSE {"u2"}]
  /\ chatDoc = StoredChats
  /\ boot = Listening
  /\ messages = <<>>
  /\ lastMessage = [c \in Chats |-> 0]
  /\ isOnline = [u \in Users |-> FALSE]
  /\ processExited = FALSE
  /\ last = Step("init", 0, NoChat, "ok", <<>>)
  /\ inbox = [s \in SocketIds |-> <<>>]

\* ------------------------------------------------------ process handlers
\* process.exit(1): the process and everything it holds in memory are gone; the
\* database keeps what was persisted
ProcessExit(op, s, c) ==
  /\ processExited' = TRUE
  /\ conn' = InitConn
  /\ connectedUsers' = [u \in Users |-> <<>>]
  /\ rooms' = [ch \in Chats |-> {}]
  /\ tasks' = {}
  /\ inbox' = [r \in SocketIds |-> <<>>]
  /\ last' = Step(op, s, c, "crash", <<>>)
  /\ UNCHANGED <<nextId, dbVars, boot>>

\* process.on('unhandledRejection'): a rejected promise nobody handles ends the process
UnhandledRejection(op, s, c) == ProcessExit(op, s, c)

\* process.on('uncaughtException'): an exception thrown out of a listener ends the process
UncaughtException(op, s, c) == ProcessExit(op, s, c)

\* ---------------------------------------------------------------- startup
\* startServer after connectDatabase: boot.redis and boot.pubsub are what the Redis
\* server did to connectRedis's client and to the adapter's two clients; redisClient,
\* adapter and log are what the program holds and wrote
Started ==
  [pc |-> "connectRedis", redis |-> "none", pubsub |-> "none",
   redisClient |-> "null", adapter |-> "memory", log |-> <<>>]

\* how an attempt to connect ends: it connects, it is refused, or the 5 s timer of
\* Promise.race fires first
ConnectOutcomes == {"connected", "refused", "timeout"}

\* connectRedis up to await Promise.race; REDIS_ENABLED === 'false' returns null at once
ConnectRedis(enabled) ==
  /\ ~processExited
  /\ boot.pc = "connectRedis"
  /\ boot' = IF enabled
             THEN [boot EXCEPT !.pc = "redisConnecting"]
             ELSE [boot EXCEPT !.pc = "initializeSocket", !.redis = "disabled",
                               !.log = Append(@, "redis disabled")]
  /\ last' = Step("connectRedis", 0, NoChat, "pending", <<>>)
  /\ UNCHANGED <<sockVars, tasks, nextId, dbVars, processExited, inbox>>

\* connectRedis: Promise.race settles; the catch block logs once and returns null
ConnectRedisSettles(outcome) ==
  /\ ~processExited
  /\ boot.pc = "redisConnecting"
  /\ boot' = IF outcome = "connected"
             THEN [boot EXCEPT !.pc = "initializeSocket", !.redis = outcome,
                               !.redisClient = "client", !.log = Append(@, "redis connected")]
             ELSE [boot EXCEPT !.pc = "initializeSocket", !.redis = outcome,
                               !.redisClient = "null", !.log = Append(@, "redis not available")]
  /\ last' = Step("connectRedis", 0, NoChat, outcome, <<>>)
  /\ UNCHANGED <<sockVars, tasks, nextId, dbVars, processExited, inbox>>

\* io.adapter(createAdapter(pubClient, subClient)); logger.info('Redis adapter enabled')
AdapterEnabled(b) ==
  [b EXCEPT !.pc = "listening", !.adapter = "redis", !.log = Append(@, "adapter enabled")]

\* mutant: the adapter setup without its try/catch: the rejection reaches startServer's
\* catch, which ends the process
AdapterFailed_Rethrown(b) == [b EXCEPT !.pc = "failed"]

\* catch (error) { logger.info('Socket.IO Redis adapter not available ...') }
AdapterFailed(b) == [b EXCEPT !.pc = "listening", !.log = Append(@, "adapter not available")]

\* initializeSocket up to await Promise.race, or to its end when getRedisClient()
\* returns null: the middleware and the connection listener are registered, io is
\* returned and startServer calls listen
InitializeSocket ==
  /\ ~processExited
  /\ boot.pc = "initializeSocket"
  /\ boot' = IF boot.redisClient = "client"
             THEN [boot EXCEPT !.pc = "adapterConnecting"]
             ELSE [boot EXCEPT !.pc = "listening", !.log = Append(@, "single-instance mode")]
  /\ last' = Step("initializeSocket", 0, NoChat,
                  IF boot.redisClient = "client" THEN "pending" ELSE "ok", <<>>)
  /\ UNCHANGED <<sockVars, tasks, nextId, dbVars, processExited, inbox>>

\* initializeSocket: Promise.race over the two connects settles
AdapterSettles(outcome) ==
  /\ ~processExited
  /\ boot.pc = "adapterConnecting"
  /\ boot' = IF outcome = "connected"
             THEN [AdapterEnabled(boot) EXCEPT !.pubsub = outcome]
             ELSE [AdapterFailed(boot) EXCEPT !.pubsub = outcome]
  /\ last' = Step("initializeSocket", 0, NoChat, "ok", <<>>)
  /\ UNCHANGED <<sockVars, tasks, nextId, dbVars, processExited, inbox>>

\* ---------------------------------------------------- connection handler
NextSocket == CHOOSE s \in SocketIds : conn[s].pc = "unused" /\ \A r \in SocketIds : r < s => conn[r].pc # "unused"

\* connectedUsers.has(userId)
HasEntry(cu, u) == cu[u] # <<>>

\* connectedUsers.get(userId)!.push({userId, socketId, username})
RegisterConnection(cu, u, s) == [cu EXCEPT ![u] = Append(@, s)]

\* chats.forEach((chat) => io.to(`chat:${chat._id}`).emit(ev, ...))
EmitToChats(cs, rms, cn, ev, data) == [i \in 1..Len(cs) |-> IoToEmit(rms, cn, cs[i], ev, data)]

\* chats.forEach((chat) => socket.join(`chat:${chat._id}`))
JoinChats(rms, cs, s) == [c \in Chats |-> IF c \in cs THEN rms[c] \cup {s} ELSE rms[c]]

\* Chat.find({ participants: userId })
FindChats(parts, u) == {c \in Chats : u \in parts[c]}

\* generateToken: the token the server signs for user u
SignedToken(u) == IF u = "u1" THEN "tok_u1" ELSE "tok_u2"

\* the id in the payload of a token (what decoding without verification yields)
ClaimedUser(tok) ==
  IF tok \in {"tok_u1", "bad"} THEN "u1" ELSE IF tok = "tok_u2" THEN "u2" ELSE NoUser

\* jwt.verify(token, JWT_SECRET) returns the payload (it throws otherwise)
Verifies(tok) == \E u \in Users : tok = SignedToken(u)

\* mutant: the middleware decodes the token without verifying it
AuthPasses_Unverified(tok) == tok # "none"

\* io.use: next() without an error
AuthPasses(tok) == tok # "none" /\ Verifies(tok)

\* io.on('connection'): a client whose handshake passed the middleware connects;
\* the handler registers it and suspends on User.findByIdAndUpdate
Connect(u, tok) ==
  /\ ~processExited
  /\ boot.pc = "listening"
  /\ \E s \in SocketIds : conn[s].pc = "unused"
  /\ LET s == NextSocket IN
       /\ conn' = [conn EXCEPT ![s] = [user |-> u, open |-> TRUE, pc |-> "updateOnline",
                                       chats |-> {}, token |-> tok,
                                       first |-> ~HasEntry(connectedUsers, u)]]
       /\ connectedUsers' = RegisterConnection(connectedUsers, u, s)
       /\ last' = Pending
  /\ UNCHANGED <<rooms, tasks, nextId, dbVars, processExited, boot, inbox>>

\* io.use: next(new Error('Authentication error: ...')); socket.io answers the handshake
\* with a connect error and never fires 'connection' for the socket
RejectConnection(tok) ==
  /\ ~processExited
  /\ boot.pc = "listening"
  /\ \E s \in SocketIds : conn[s].pc = "unused"
  /\ LET s == NextSocket IN
       /\ conn' = [conn EXCEPT ![s] = [user |-> NoUser, open |-> FALSE, pc |-> "rejected",
                                       chats |-> {}, token |-> tok, first |-> FALSE]]
       /\ last' = Step("handshake", s, NoChat, "rejected",
                       <<Emission("connect_error", {s}, NoChat, 0)>>)
  /\ UNCHANGED <<connectedUsers, rooms, tasks, nextId, dbVars, processExited, boot, inbox>>

\* a client opens a connection presenting tok: the authentication middleware, then
\* the connection handler
Handshake(tok) ==
  IF AuthPasses(tok) THEN Connect(ClaimedUser(tok), tok) ELSE RejectConnection(tok)

\* await User.findByIdAndUpdate(userId, { isOnline: true }) settles
SetupUpdateOnline(s) ==
  /\ ~processExited
  /\ conn[s].pc = "updateOnline"
  /\ \/ /\ isOnline' = [isOnline EXCEPT ![conn[s].user] = TRUE]
        /\ conn' = [conn EXCEPT ![s].pc = "findChats"]
        /\ last' = Pending
        /\ UNCHANGED <<connectedUsers, rooms, tasks, nextId, participants, chatDoc, messages,
                       lastMessage, processExited, boot, inbox>>
     \/ UnhandledRejection("connection", s, NoChat)

\* await Chat.find(...) settles: bulk-join, user_online, and the event handlers are attached
SetupFindChats(s) ==
  /\ ~processExited
  /\ conn[s].pc = "findChats"
  /\ \/ LET cs  == FindChats(participants, conn[s].user)
            rms == JoinChats(rooms, cs, s)
        IN /\ rooms' = rms
           /\ conn' = [conn EXCEPT ![s].pc = "ready", ![s].chats = cs]
           /\ last' = Step("connection", s, NoChat, "ok",
                           EmitToChats(ChatSeq(ChatOrder, cs), rms, conn, "user_online", 0))
           /\ UNCHANGED <<connectedUsers, tasks, nextId, dbVars, processExited, boot, inbox>>
     \/ UnhandledRejection("connection", s, NoChat)

\* ---------------------------------------------------- disconnect handler
\* mutant: the last-connection test off by one
IsLastConnection_OffByOne(filtered) == Len(filtered) <= 1

\* if (filtered.length === 0)
IsLastConnection(filtered) == Len(filtered) = 0

\* the transport of socket s closes (gracefully or not): socket.io leaves all rooms and
\* fires 'disconnect', which runs the handler only if it has been attached already
Disconnect(s) ==
  /\ ~processExited
  /\ conn[s].open
  /\ conn' = [conn EXCEPT ![s].open = FALSE]
  /\ rooms' = LeaveAll(rooms, s)
  /\ LET u == conn[s].user
         userSockets == connectedUsers[u]
         filtered == SeqFilterOut(userSockets, s)
     IN IF conn[s].pc # "ready"
        THEN /\ last' = Step("disconnect", s, NoChat, "nohandler", <<>>)
             /\ UNCHANGED <<connectedUsers, tasks>>
        ELSE IF userSockets = <<>>
        THEN /\ last' = Step("disconnect", s, NoChat, "unregistered", <<>>)
             /\ UNCHANGED <<connectedUsers, tasks>>
        ELSE IF IsLastConnection(filtered)
        THEN /\ connectedUsers' = [connectedUsers EXCEPT ![u] = <<>>]
             /\ tasks' = tasks \cup {Task(0, "disconnect", s, NoChat, "updateOffline")}
             /\ last' = Step("disconnect", s, NoChat, "offline", <<>>)
        ELSE /\ connectedUsers' = [connectedUsers EXCEPT ![u] = filtered]
             /\ last' = Step("disconnect", s, NoChat, "notlast", <<>>)
             /\ UNCHANGED tasks
  /\ UNCHANGED <<nextId, dbVars, processExited, boot, inbox>>

\* await User.findByIdAndUpdate(userId, { isOnline: false, lastSeen }) settles
DisconnectUpdate(t) ==
  /\ ~processExited
  /\ t \in tasks /\ t.kind = "disconnect" /\ t.pc = "updateOffline"
  /\ \/ /\ tasks' = tasks \ {t}
        /\ isOnline' = [isOnline EXCEPT ![conn[t.sock].user] = FALSE]
        /\ last' = Step("disconnect", t.sock, NoChat, "ok",
                        EmitToChats(ChatSeq(ChatOrder, conn[t.sock].chats), rooms, conn, "user_offline", 0))
        /\ UNCHANGED <<sockVars, nextId, participants, chatDoc, messages, lastMessage,
                       processExited, boot, inbox>>
     \/ UnhandledRejection("disconnect", t.sock, NoChat)

\* ------------------------------------------------------- event handlers
\* an inbound event reaches a listener: the socket is connected and the connection
\* handler has attached the listeners
CanDispatch(s) ==
  /\ ~processExited
  /\ conn[s].open
  /\ conn[s].pc = "ready"
  /\ nextId <= MaxEvents

\* an inbound event ev reaches a connected socket whose connection handler is still
\* suspended at an await: socket.on(ev, ...) has not run yet, so the socket emits the
\* event to no listener and it is gone
NoListener(s, ev, d) ==
  /\ ~processExited
  /\ conn[s].open
  /\ conn[s].pc \in {"updateOnline", "findChats"}
  /\ nextId <= MaxEvents
  /\ nextId' = nextId + 1
  /\ last' = Step(ev, s, IF d = NoData THEN NoChat ELSE d, "dropped", <<>>)
  /\ UNCHANGED <<sockVars, tasks, dbVars, processExited, boot, inbox>>

\* Chat.findOne({ _id: chatId, participants: userId }) found a chat
IsParticipant(parts, c, u) == u \in parts[c]

\* socket.emit('error', { message })
ErrorEmit(s, c) == SocketEmit(conn, s, c, "error", 0)

\* the handler ran to its end (or to an early return) without suspending again
Finish(t, outcome, emits) ==
  /\ tasks' = tasks \ {t}
  /\ last' = Step(t.kind, t.sock, t.chat, outcome, emits)

\* a handler suspended at its first await
Suspend(kind, s, c, p, ids) ==
  /\ tasks' = tasks \cup {[Task(nextId, kind, s, c, "findOne") EXCEPT !.payload = p, !.ids = ids]}
  /\ last' = Pending

\* a handler that moves on to its next await
Advance(t, t2) ==
  /\ tasks' = (tasks \ {t}) \cup {t2}
  /\ last' = Pending

\* socket.on('join_chat'), up to await Chat.findOne
JoinChat(s, d) ==
  /\ CanDispatch(s)
  /\ nextId' = nextId + 1
  /\ IF d = NoData
     THEN /\ last' = Step("join_chat", s, NoChat, "failed", <<ErrorEmit(s, NoChat)>>)
          /\ UNCHANGED tasks
     ELSE Suspend("join_chat", s, d, NoPayload, {})
  /\ UNCHANGED <<sockVars, dbVars, processExited, boot, inbox>>

\* mutant: joined_chat sent to the whole room
JoinedChatEmit_ToRoom(rms, cn, s, c) == IoToEmit(rms, cn, c, "joined_chat", 0)

\* socket.emit('joined_chat', { chatId })
JoinedChatEmit(rms, cn, s, c) == SocketEmit(cn, s, c, "joined_chat", 0)

\* join_chat: Chat.findOne settles
JoinChatFindOne(t) ==
  /\ ~processExited
  /\ t \in tasks /\ t.kind = "join_chat" /\ t.pc = "findOne"
  /\ \/ /\ Finish(t, "failed", <<ErrorEmit(t.sock, t.chat)>>)
        /\ UNCHANGED rooms
     \/ IF IsParticipant(participants, t.chat, conn[t.sock].user)
        THEN /\ rooms' = SocketJoin(rooms, t.chat, t.sock)
             /\ Finish(t, "ok", <<JoinedChatEmit(rooms', conn, t.sock, t.chat)>>)
        ELSE /\ Finish(t, "denied", <<>>)
             /\ UNCHANGED rooms
  /\ UNCHANGED <<conn, connectedUsers, nextId, dbVars, processExited, boot, inbox>>

\* mutant: left_chat answered only when the socket was in the room
LeftChatEmit_OnlyIfMember(rms, cn, s, c) ==
  Emission("left_chat", IF s \in rms[c] THEN {s} \cap Connected(cn) ELSE {}, c, 0)

\* socket.emit('left_chat', { chatId })
LeftChatEmit(rms, cn, s, c) == SocketEmit(cn, s, c, "left_chat", 0)

\* socket.on('leave_chat')
LeaveChat(s, d) ==
  /\ CanDispatch(s)
  /\ IF d = NoData
     THEN UncaughtException("leave_chat", s, NoChat)
     ELSE /\ nextId' = nextId + 1
          /\ rooms' = SocketLeave(rooms, d, s)
          /\ last' = Step("leave_chat", s, d, "ok", <<LeftChatEmit(rooms, conn, s, d)>>)
          /\ UNCHANGED <<conn, connectedUsers, tasks, dbVars, processExited, boot, inbox>>

\* socket.on('typing'), up to await Chat.findOne; the handler has no try/catch
Typing(s, d) ==
  /\ CanDispatch(s)
  /\ IF d = NoData
     THEN UnhandledRejection("typing", s, NoChat)
     ELSE /\ nextId' = nextId + 1
          /\ Suspend("typing", s, d, NoPayload, {})
          /\ UNCHANGED <<sockVars, dbVars, processExited, boot, inbox>>

\* mutant: user_typing sent with io.to, which includes the sender
TypingEmit_ToAll(rms, cn, s, c) == IoToEmit(rms, cn, c, "user_typing", 0)

\* socket.to(`chat:${chatId}`).emit('user_typing')
TypingEmit(rms, cn, s, c) == SocketToEmit(rms, cn, s, c, "user_typing", 0)

\* typing: Chat.findOne settles
TypingFindOne(t) ==
  /\ ~processExited
  /\ t \in tasks /\ t.kind = "typing" /\ t.pc = "findOne"
  /\ \/ UnhandledRejection("typing", t.sock, t.chat)
     \/ /\ IF IsParticipant(participants, t.chat, conn[t.sock].user)
           THEN Finish(t, "ok", <<TypingEmit(rooms, conn, t.sock, t.chat)>>)
           ELSE Finish(t, "denied", <<>>)
        /\ UNCHANGED <<sockVars, nextId, dbVars, processExited, boot, inbox>>

\* socket.on('stop_typing')
StopTyping(s, d) ==
  /\ CanDispatch(s)
  /\ IF d = NoData
     THEN UncaughtException("stop_typing", s, NoChat)
     ELSE /\ nextId' = nextId + 1
          /\ last' = Step("stop_typing", s, d, "ok",
                          <<SocketToEmit(rooms, conn, s, d, "user_stop_typing", 0)>>)
          /\ UNCHANGED <<sockVars, tasks, dbVars, processExited, boot, inbox>>

\* socket.on('presence_update'): the rooms are those of the `chats` closure
PresenceUpdate(s, d) ==
  /\ CanDispatch(s)
  /\ IF d = NoData
     THEN UncaughtException("presence_update", s, NoChat)
     ELSE /\ nextId' = nextId + 1
          /\ last' = Step("presence_update", s, NoChat, "ok",
                          EmitToChats(ChatSeq(ChatOrder, conn[s].chats), rooms, conn, "user_presence", d))
          /\ UNCHANGED <<sockVars, tasks, dbVars, processExited, boot, inbox>>

\* ------------------------------------------------------------ send_message
\* type || MessageType.TEXT
EffectiveType(p) == IF p.type = "none" THEN "text" ELSE p.type

\* the handler's checks: type === TEXT && !content; type in {IMAGE, FILE} && !fileUrl
PassesValidation(p) ==
  /\ ~(p.type = "text" /\ ~p.content)
  /\ ~(p.type \in {"image", "file"} /\ ~p.fileUrl)

\* mutant: a schema whose content is never required
SchemaAccepts_ContentOptional(p) == TRUE

\* messageSchema: content is required when this.type === TEXT (an empty string does not satisfy required)
SchemaAccepts(p) == ~(EffectiveType(p) = "text" /\ ~p.content)

\* the message document Message.create stores
NewMessage(id, c, u) == [id |-> id, chat |-> c, sender |-> u, readBy |-> {}]

\* for (const socket of sockets) if (chatParticipants.includes(socketUser.id)) socket.join(room)
JoinParticipants(rms, cn, c, parts) ==
  [rms EXCEPT ![c] = @ \cup {s \in Connected(cn) : cn[s].user \in parts}]

\* mutant: new_message sent with socket.to, which leaves the sender out
NewMessageEmit_ExceptSender(rms, cn, s, c, id) == SocketToEmit(rms, cn, s, c, "new_message", id)

\* io.to(`chat:${chatId}`).emit('new_message')
NewMessageEmit(rms, cn, s, c, id) == IoToEmit(rms, cn, c, "new_message", id)

\* socket.emit('message_sent')
MessageSentEmit(rms, cn, s, c, id) == SocketEmit(cn, s, c, "message_sent", id)

\* socket.on('send_message'), up to await Chat.findOne
SendMessage(s, d, p) ==
  /\ CanDispatch(s)
  /\ nextId' = nextId + 1
  /\ IF d = NoData
     THEN /\ last' = Step("send_message", s, NoChat, "failed", <<ErrorEmit(s, NoChat)>>)
          /\ UNCHANGED tasks
     ELSE Suspend("send_message", s, d, p, {})
  /\ UNCHANGED <<sockVars, dbVars, processExited, boot, inbox>>

\* send_message: Chat.findOne settles; participant check and validation
SendFindOne(t) ==
  /\ ~processExited
  /\ t \in tasks /\ t.kind = "send_message" /\ t.pc = "findOne"
  /\ \/ Finish(t, "failed", <<ErrorEmit(t.sock, t.chat)>>)
     \/ IF ~IsParticipant(participants, t.chat, conn[t.sock].user)
        THEN Finish(t, "denied", <<ErrorEmit(t.sock, t.chat)>>)
        ELSE IF ~PassesValidation(t.payload)
        THEN Finish(t, "invalid", <<ErrorEmit(t.sock, t.chat)>>)
        ELSE Advance(t, [t EXCEPT !.pc = "create", !.parts = participants[t.chat]])
  /\ UNCHANGED <<sockVars, nextId, dbVars, processExited, boot, inbox>>

\* send_message: Message.create settles
SendCreate(t) ==
  /\ ~processExited
  /\ t \in tasks /\ t.kind = "send_message" /\ t.pc = "create"
  /\ \/ /\ Finish(t, "failed", <<ErrorEmit(t.sock, t.chat)>>)
        /\ UNCHANGED messages
     \/ IF SchemaAccepts(t.payload)
        THEN /\ messages' = Append(messages, NewMessage(t.id, t.chat, conn[t.sock].user))
             /\ Advance(t, [t EXCEPT !.pc = "save", !.payload = NoPayload])
        ELSE /\ Finish(t, "rejected", <<ErrorEmit(t.sock, t.chat)>>)
             /\ UNCHANGED messages
  /\ UNCHANGED <<sockVars, nextId, participants, chatDoc, lastMessage, isOnline, processExited, boot, inbox>>

\* mutant: the handler goes on without storing the last-message pointer
ChatSave_Skipped(lm, c, id) == lm

\* chat.lastMessage = message._id; await chat.save()
ChatSave(lm, c, id) == [lm EXCEPT ![c] = id]

\* send_message: chat.save() settles (chat.lastMessage = message._id)
SendSave(t) ==
  /\ ~processExited
  /\ t \in tasks /\ t.kind = "send_message" /\ t.pc = "save"
  /\ \/ /\ Finish(t, "failed", <<ErrorEmit(t.sock, t.chat)>>)
        /\ UNCHANGED lastMessage
     \/ /\ lastMessage' = ChatSave(lastMessage, t.chat, t.id)
        /\ Advance(t, [t EXCEPT !.pc = "populate"])
  /\ UNCHANGED <<sockVars, nextId, participants, chatDoc, messages, isOnline, processExited, boot, inbox>>

\* send_message: the two populate calls and io.fetchSockets() settle; the participants'
\* sockets are joined to the room, new_message and message_sent are emitted
SendPopulate(t) ==
  /\ ~processExited
  /\ t \in tasks /\ t.kind = "send_message" /\ t.pc = "populate"
  /\ \/ /\ Finish(t, "failed", <<ErrorEmit(t.sock, t.chat)>>)
        /\ UNCHANGED <<rooms, inbox>>
     \/ LET rms == JoinParticipants(rooms, conn, t.chat, t.parts)
            nm  == NewMessageEmit(rms, conn, t.sock, t.chat, t.id)
        IN /\ rooms' = rms
           /\ Finish(t, "ok", <<nm, MessageSentEmit(rms, conn, t.sock, t.chat, t.id)>>)
           /\ inbox' = [s \in SocketIds |->
                          IF s \in nm.to THEN Append(inbox[s], t.id) ELSE inbox[s]]
  /\ UNCHANGED <<conn, connectedUsers, nextId, dbVars, processExited, boot>>

\* ------------------------------------------------------------ read_message
\* mutant: the update filter without the chatId condition
MarkRead_AnyChat(msgs, c, u, ids) ==
  [i \in 1..Len(msgs) |->
     IF /\ (ids # {} => msgs[i].id \in ids)
        /\ msgs[i].sender # u
        /\ u \notin msgs[i].readBy
     THEN [msgs[i] EXCEPT !.readBy = @ \cup {u}]
     ELSE msgs[i]]

\* Message.updateMany({_id in ids (when given), chatId, senderId != userId, readBy != userId},
\*                    {$addToSet: {readBy: userId}})
MarkRead(msgs, c, u, ids) ==
  [i \in 1..Len(msgs) |->
     IF /\ (ids # {} => msgs[i].id \in ids)
        /\ msgs[i].chat = c
        /\ msgs[i].sender # u
        /\ u \notin msgs[i].readBy
     THEN [msgs[i] EXCEPT !.readBy = @ \cup {u}]
     ELSE msgs[i]]

\* socket.on('read_message'), up to await Chat.findOne
ReadMessage(s, d, ids) ==
  /\ CanDispatch(s)
  /\ nextId' = nextId + 1
  /\ IF d = NoData
     THEN /\ last' = Step("read_message", s, NoChat, "failed", <<ErrorEmit(s, NoChat)>>)
          /\ UNCHANGED tasks
     ELSE Suspend("read_message", s, d, NoPayload, ids)
  /\ UNCHANGED <<sockVars, dbVars, processExited, boot, inbox>>

\* read_message: Chat.findOne settles
ReadFindOne(t) ==
  /\ ~processExited
  /\ t \in tasks /\ t.kind = "read_message" /\ t.pc = "findOne"
  /\ \/ Finish(t, "failed", <<ErrorEmit(t.sock, t.chat)>>)
     \/ IF ~IsParticipant(participants, t.chat, conn[t.sock].user)
        THEN Finish(t, "denied", <<ErrorEmit(t.sock, t.chat)>>)
        ELSE Advance(t, [t EXCEPT !.pc = "updateMany"])
  /\ UNCHANGED <<sockVars, nextId, dbVars, processExited, boot, inbox>>

\* read_message: Message.updateMany settles; messages_read goes to the room except the sender
ReadUpdateMany(t) ==
  /\ ~processExited
  /\ t \in tasks /\ t.kind = "read_message" /\ t.pc = "updateMany"
  /\ \/ /\ Finish(t, "failed", <<ErrorEmit(t.sock, t.chat)>>)
        /\ UNCHANGED messages
     \/ /\ messages' = MarkRead(messages, t.chat, conn[t.sock].user, t.ids)
        /\ Finish(t, "ok", <<SocketToEmit(rooms, conn, t.sock, t.chat, "messages_read", 0)>>)
  /\ UNCHANGED <<sockVars, nextId, participants, chatDoc, lastMessage, isOnline, processExited, boot, inbox>>

\* ------------------------------------------------------------ REST: chats
\* Chat documents with isGroup: true
GroupChats == {c \in Chats : chatDoc[c].exists /\ chatDoc[c].isGroup}
\* chat.admin
ChatAdmin(c) == chatDoc[c].admin

\* a request passed authMiddleware (req.user is set) and reaches its controller; the
\* HTTP server accepts requests once startServer has called listen
CanRequest ==
  /\ ~processExited
  /\ boot.pc = "listening"
  /\ nextId <= MaxEvents

\* a controller that answers its request, about chat c
Respond(t, c, outcome, emits) ==
  /\ tasks' = tasks \ {t}
  /\ last' = Step(t.kind, 0, c, outcome, emits)

\* a controller suspended at its first await
Request(kind, by, other, c, pc) ==
  [Task(nextId, kind, 0, c, pc) EXCEPT !.by = by, !.other = other]

\* Chat.findOne({ _id: id, participants: userId, isGroup: true }) found a chat
FindGroup(c, by) == chatDoc[c].exists /\ chatDoc[c].isGroup /\ by \in participants[c]

\* a Chat document removed by findByIdAndDelete: its _id is never handed out again
Deleted == [exists |-> FALSE, isGroup |-> FALSE, admin |-> NoUser, v |-> -1]

\* the _ids Chat.create can still hand out, and the one it hands out next
FreshChats == {c \in Chats : chatDoc[c] = NoDoc}
NextChat == ChatSeq(ChatOrder, FreshChats)[1]

\* the requests that are on their way to a Chat.create
Creating == {t \in tasks : t.kind \in {"createChat", "startChat"} /\ t.pc \in {"findOne", "create"}}

\* POST /chats/:id/participants (addParticipants), up to await Chat.findOne: user `by`
\* asks to add user u to chat c
AddParticipants(c, by, u) ==
  /\ CanRequest
  /\ nextId' = nextId + 1
  /\ tasks' = tasks \cup {Request("addParticipants", by, u, c, "findOne")}
  /\ last' = Pending
  /\ UNCHANGED <<sockVars, dbVars, processExited, boot, inbox>>

\* addParticipants: Chat.findOne settles; the admin check and the duplicate filter, then
\* chat.participants.push(...) and the handler suspends on chat.save()
AddParticipantsFindOne(t) ==
  /\ ~processExited
  /\ t \in tasks /\ t.kind = "addParticipants" /\ t.pc = "findOne"
  /\ \/ Finish(t, "failed", <<>>)
     \/ IF ~FindGroup(t.chat, t.by) THEN Finish(t, "notfound", <<>>)
        ELSE IF ChatAdmin(t.chat) # t.by THEN Finish(t, "forbidden", <<>>)
        ELSE IF t.other \in participants[t.chat] THEN Finish(t, "duplicate", <<>>)
        ELSE Advance(t, [t EXCEPT !.pc = "save"])
  /\ UNCHANGED <<sockVars, nextId, dbVars, processExited, boot, inbox>>

\* addParticipants: chat.save() settles.  The pushed array is written with $push and
\* $inc __v, filtered by _id only; a document that is gone makes save() reject
AddParticipantsSave(t) ==
  /\ ~processExited
  /\ t \in tasks /\ t.kind = "addParticipants" /\ t.pc = "save"
  /\ \/ /\ Finish(t, "failed", <<>>)
        /\ UNCHANGED <<participants, chatDoc>>
     \/ /\ chatDoc[t.chat].exists
        /\ participants' = [participants EXCEPT ![t.chat] = @ \cup {t.other}]
        /\ chatDoc' = [chatDoc EXCEPT ![t.chat].v = @ + 1]
        /\ Finish(t, "ok", <<>>)
  /\ UNCHANGED <<sockVars, nextId, messages, lastMessage, isOnline, processExited, boot, inbox>>

\* DELETE /chats/:id/participants/:participantId (removeParticipant), up to await
\* Chat.findOne: user `by` asks to remove user p from chat c
RemoveParticipant(c, by, p) ==
  /\ CanRequest
  /\ nextId' = nextId + 1
  /\ tasks' = tasks \cup {Request("removeParticipant", by, p, c, "findOne")}
  /\ last' = Pending
  /\ UNCHANGED <<sockVars, dbVars, processExited, boot, inbox>>

\* mutant: the admin field is left as it was when the admin is removed
HandOver_KeepAdmin(doc, remaining, p) == {doc}

\* if (chat.admin === participantId) chat.admin = chat.participants[0]: the documents
\* the handler may hold afterwards (participants is kept as a set here, so its first
\* element is any of the remaining ones)
HandOver(doc, remaining, p) ==
  IF doc.admin = p THEN {[doc EXCEPT !.admin = a] : a \in remaining} ELSE {doc}

\* removeParticipant: Chat.findOne settles; the permission check, the filter and the
\* admin hand-over run, and the handler suspends on findByIdAndDelete or on chat.save()
RemoveParticipantFindOne(t) ==
  /\ ~processExited
  /\ t \in tasks /\ t.kind = "removeParticipant" /\ t.pc = "findOne"
  /\ LET c == t.chat
         remaining == participants[c] \ {t.other}
     IN \/ Finish(t, "failed", <<>>)
        \/ IF ~FindGroup(c, t.by) THEN Finish(t, "notfound", <<>>)
           ELSE IF ChatAdmin(c) # t.by /\ t.other # t.by THEN Finish(t, "forbidden", <<>>)
           ELSE IF ChatAdmin(c) = t.other /\ remaining = {}
           THEN Advance(t, [t EXCEPT !.pc = "delete"])
           ELSE \E doc \in HandOver(chatDoc[c], remaining, t.other) :
                  Advance(t, [t EXCEPT !.parts = remaining, !.doc = doc,
                                       !.pc = IF t.other \in participants[c] THEN "save"
                                              ELSE IF doc # chatDoc[c] THEN "saveAdmin"
                                              ELSE "unmodified"])
  /\ UNCHANGED <<sockVars, nextId, dbVars, processExited, boot, inbox>>

\* removeParticipant: Chat.findByIdAndDelete(id) settles
RemoveParticipantDelete(t) ==
  /\ ~processExited
  /\ t \in tasks /\ t.kind = "removeParticipant" /\ t.pc = "delete"
  /\ \/ /\ Finish(t, "failed", <<>>)
        /\ UNCHANGED <<participants, chatDoc, lastMessage>>
     \/ /\ participants' = [participants EXCEPT ![t.chat] = {}]
        /\ chatDoc' = [chatDoc EXCEPT ![t.chat] = IF @.exists THEN Deleted ELSE @]
        /\ lastMessage' = [lastMessage EXCEPT ![t.chat] = 0]
        /\ Finish(t, "deleted", <<>>)
  /\ UNCHANGED <<sockVars, nextId, messages, isOnline, processExited, boot, inbox>>

\* removeParticipant: chat.save() settles.  A participants array that was assigned is
\* written with $set under the filter { _id, __v } and $inc __v: save() rejects with a
\* VersionError when the document changed its version or is gone.  A changed admin
\* alone is written with $set under { _id }; an unmodified document is not written.
RemoveParticipantSave(t) ==
  /\ ~processExited
  /\ t \in tasks /\ t.kind = "removeParticipant" /\ t.pc \in {"save", "saveAdmin", "unmodified"}
  /\ \/ /\ Finish(t, "failed", <<>>)
        /\ UNCHANGED <<participants, chatDoc>>
     \/ IF t.pc = "unmodified"
        THEN /\ Finish(t, "ok", <<>>)
             /\ UNCHANGED <<participants, chatDoc>>
        ELSE IF t.pc = "saveAdmin"
        THEN /\ chatDoc[t.chat].exists
             /\ chatDoc' = [chatDoc EXCEPT ![t.chat].admin = t.doc.admin]
             /\ Finish(t, "ok", <<>>)
             /\ UNCHANGED participants
        ELSE IF chatDoc[t.chat].exists /\ chatDoc[t.chat].v = t.doc.v
        THEN /\ participants' = [participants EXCEPT ![t.chat] = t.parts]
             /\ chatDoc' = [chatDoc EXCEPT ![t.chat] = [t.doc EXCEPT !.v = @ + 1]]
             /\ Finish(t, "ok", <<>>)
        ELSE /\ Finish(t, "conflict", <<>>)
             /\ UNCHANGED <<participants, chatDoc>>
  /\ UNCHANGED <<sockVars, nextId, messages, lastMessage, isOnline, processExited, boot, inbox>>

\* POST /chats (createChat) with isGroup: true, up to await Chat.create: user `by` names
\* the users in `others`; the creator is added and duplicates are dropped
CreateGroup(by, others) ==
  /\ CanRequest
  /\ Cardinality(FreshChats) > Cardinality(Creating)
  /\ nextId' = nextId + 1
  /\ LET uniqueParticipants == {by} \cup others
     IN IF Cardinality(uniqueParticipants) < 2
        THEN /\ last' = Step("createChat", 0, NoChat, "invalid", <<>>)
             /\ UNCHANGED tasks
        ELSE /\ tasks' = tasks \cup {[Request("createChat", by, NoUser, NoChat, "create")
                                        EXCEPT !.parts = uniqueParticipants]}
             /\ last' = Pending
  /\ UNCHANGED <<sockVars, dbVars, processExited, boot, inbox>>

\* POST /chats (createChat) with isGroup: false and one participant, up to await
\* Chat.findOne: user `by` asks for the one-to-one chat with user o
CreateChat(by, o) ==
  /\ CanRequest
  /\ Cardinality(FreshChats) > Cardinality(Creating)
  /\ nextId' = nextId + 1
  /\ tasks' = tasks \cup {Request("createChat", by, o, NoChat, "findOne")}
  /\ last' = Pending
  /\ UNCHANGED <<sockVars, dbVars, processExited, boot, inbox>>

\* POST /chats/start (startChat), up to await Chat.findOne (the User lookups found o)
StartChat(by, o) ==
  /\ CanRequest
  /\ Cardinality(FreshChats) > Cardinality(Creating)
  /\ nextId' = nextId + 1
  /\ tasks' = tasks \cup {Request("startChat", by, o, NoChat, "findOne")}
  /\ last' = Pending
  /\ UNCHANGED <<sockVars, dbVars, processExited, boot, inbox>>

\* Chat.findOne({ isGroup: false, participants: { $all: [userId, otherUserId], $size: 2 } }):
\* the documents that match (a one-to-one document always holds two entries)
ExistingChats(by, o) ==
  {c \in Chats : chatDoc[c].exists /\ ~chatDoc[c].isGroup /\ {by, o} \subseteq participants[c]}

\* createChat / startChat: Chat.findOne settles; an existing chat is returned, else the
\* handler suspends on Chat.create
ChatFindOne(t) ==
  /\ ~processExited
  /\ t \in tasks /\ t.kind \in {"createChat", "startChat"} /\ t.pc = "findOne"
  /\ \/ Finish(t, "failed", <<>>)
     \/ IF ExistingChats(t.by, t.other) # {}
        THEN \E c \in ExistingChats(t.by, t.other) : Respond(t, c, "exists", <<>>)
        ELSE Advance(t, [t EXCEPT !.pc = "create", !.parts = {t.by, t.other}])
  /\ UNCHANGED <<sockVars, nextId, dbVars, processExited, boot, inbox>>

\* createChat / startChat: Chat.create settles.  A group chat is answered after its
\* populate calls; a one-to-one chat goes on to sendChatNotification
ChatCreate(t) ==
  /\ ~processExited
  /\ t \in tasks /\ t.kind \in {"createChat", "startChat"} /\ t.pc = "create"
  /\ \/ /\ Finish(t, "failed", <<>>)
        /\ UNCHANGED <<participants, chatDoc>>
     \/ LET c == NextChat
            isGroup == t.other = NoUser
        IN /\ participants' = [participants EXCEPT ![c] = t.parts]
           /\ chatDoc' = [chatDoc EXCEPT ![c] = ChatDoc(isGroup, IF isGroup THEN t.by ELSE NoUser, 0)]
           /\ IF isGroup
              THEN Respond(t, c, "created", <<>>)
              ELSE Advance(t, [t EXCEPT !.chat = c, !.pc = "notify"])
  /\ UNCHANGED <<sockVars, nextId, messages, lastMessage, isOnline, processExited, boot, inbox>>

\* sendChatNotification: chat.populate, User.findById(senderId) and Message.create
\* settle.  A failing populate answers the request with the error; an error inside
\* sendChatNotification is caught and logged, and the request is answered with 201
SendChatNotificationCreate(t) ==
  /\ ~processExited
  /\ t \in tasks /\ t.kind \in {"createChat", "startChat"} /\ t.pc = "notify"
  /\ \/ /\ Finish(t, "failed", <<>>)
        /\ UNCHANGED messages
     \/ /\ Finish(t, "unnotified", <<>>)
        /\ UNCHANGED messages
     \/ /\ messages' = Append(messages, NewMessage(t.id, t.chat, t.by))
        /\ Advance(t, [t EXCEPT !.pc = "update"])
  /\ UNCHANGED <<sockVars, nextId, participants, chatDoc, lastMessage, isOnline, processExited, boot, inbox>>

\* sendChatNotification: Chat.findByIdAndUpdate(chatId, { lastMessage }) settles
SendChatNotificationUpdate(t) ==
  /\ ~processExited
  /\ t \in tasks /\ t.kind \in {"createChat", "startChat"} /\ t.pc = "update"
  /\ \/ /\ Finish(t, "unnotified", <<>>)
        /\ UNCHANGED lastMessage
     \/ /\ lastMessage' = [lastMessage EXCEPT ![t.chat] = IF chatDoc[t.chat].exists THEN t.id ELSE @]
        /\ Advance(t, [t EXCEPT !.pc = "emit"])
  /\ UNCHANGED <<sockVars, nextId, participants, chatDoc, messages, isOnline, processExited, boot, inbox>>

\* io.fetchSockets(): the sockets of the namespace, in connection order
FetchSockets(cn) == Connected(cn)

\* mutant: the loop looks for a socket of the sender
Recipient_Sender(by, o) == by

\* if (socketUser?.id === recipientId)
Recipient(by, o) == o

\* for (const socket of sockets) if (socketUser?.id === recipientId) { socket.emit('new_chat'); break }
NewChatEmit(cn, u, c, id) ==
  LET mine == {s \in FetchSockets(cn) : cn[s].user = u}
  IN IF mine = {} THEN <<>>
     ELSE <<Emission("new_chat", {CHOOSE s \in mine : \A r \in mine : s <= r}, c, id)>>

\* sendChatNotification: message.populate and io.fetchSockets() settle; new_message goes
\* to the room of the new chat and new_chat to the first socket of the recipient
SendChatNotificationEmit(t) ==
  /\ ~processExited
  /\ t \in tasks /\ t.kind \in {"createChat", "startChat"} /\ t.pc = "emit"
  /\ \/ /\ Finish(t, "unnotified", <<>>)
        /\ UNCHANGED inbox
     \/ LET nm == IoToEmit(rooms, conn, t.chat, "new_message", t.id)
        IN /\ Finish(t, "created",
                     <<nm>> \o NewChatEmit(conn, Recipient(t.by, t.other), t.chat, t.id))
           /\ inbox' = [s \in SocketIds |->
                          IF s \in nm.to THEN Append(inbox[s], t.id) ELSE inbox[s]]
  /\ UNCHANGED <<sockVars, nextId, dbVars, processExited, boot>>

\* --------------------------------------------------------- REST: messages
\* sendMessageSchema: type defaults to TEXT; a text message needs content, an image or
\* file message needs fileUrl
ZodAccepts(p) ==
  /\ EffectiveType(p) = "text" => p.content
  /\ EffectiveType(p) = "image" => p.fileUrl

\* POST /messages (sendMessage), up to await Chat.findOne
RestSendMessage(by, c, p) ==
  /\ CanRequest
  /\ nextId' = nextId + 1
  /\ IF ~ZodAccepts(p)
     THEN /\ last' = Step("sendMessage", 0, c, "invalid", <<>>)
          /\ UNCHANGED tasks
     ELSE /\ tasks' = tasks \cup {[Request("sendMessage", by, NoUser, c, "findOne") EXCEPT !.payload = p]}
          /\ last' = Pending
  /\ UNCHANGED <<sockVars, dbVars, processExited, boot, inbox>>

\* sendMessage: Chat.findOne settles; the participant check and the validation
RestSendFindOne(t) ==
  /\ ~processExited
  /\ t \in tasks /\ t.kind = "sendMessage" /\ t.pc = "findOne"
  /\ \/ Finish(t, "failed", <<>>)
     \/ IF ~IsParticipant(participants, t.chat, t.by) THEN Finish(t, "denied", <<>>)
        ELSE IF ~PassesValidation([t.payload EXCEPT !.type = EffectiveType(t.payload)])
        THEN Finish(t, "invalid", <<>>)
        ELSE Advance(t, [t EXCEPT !.pc = "create"])
  /\ UNCHANGED <<sockVars, nextId, dbVars, processExited, boot, inbox>>

\* sendMessage: Message.create settles
RestSendCreate(t) ==
  /\ ~processExited
  /\ t \in tasks /\ t.kind = "sendMessage" /\ t.pc = "create"
  /\ \/ /\ Finish(t, "failed", <<>>)
        /\ UNCHANGED messages
     \/ IF SchemaAccepts(t.payload)
        THEN /\ messages' = Append(messages, NewMessage(t.id, t.chat, t.by))
             /\ Advance(t, [t EXCEPT !.pc = "save", !.payload = NoPayload])
        ELSE /\ Finish(t, "rejected", <<>>)
             /\ UNCHANGED messages
  /\ UNCHANGED <<sockVars, nextId, participants, chatDoc, lastMessage, isOnline, processExited, boot, inbox>>

\* sendMessage: chat.save() settles (chat.lastMessage = message._id); the populate calls
\* follow and the request is answered with 201
RestSendSave(t) ==
  /\ ~processExited
  /\ t \in tasks /\ t.kind = "sendMessage" /\ t.pc = "save"
  /\ \/ /\ Finish(t, "failed", <<>>)
        /\ UNCHANGED lastMessage
     \/ /\ chatDoc[t.chat].exists
        /\ lastMessage' = ChatSave(lastMessage, t.chat, t.id)
        /\ Finish(t, "ok", <<>>)
  /\ UNCHANGED <<sockVars, nextId, participants, chatDoc, messages, isOnline, processExited, boot, inbox>>

\* Message.findById(id)
FindById(msgs, id) == {m \in Range(msgs) : m.id = id}

RECURSIVE DeleteById(_, _)
\* Message.findByIdAndDelete(id)
DeleteById(msgs, id) ==
  IF msgs = <<>> THEN <<>>
  ELSE IF Head(msgs).id = id THEN DeleteById(Tail(msgs), id)
       ELSE <<Head(msgs)>> \o DeleteById(Tail(msgs), id)

\* Message.findOne({ chatId }).sort({ createdAt: -1 }): the _id of the newest message of
\* the chat, 0 when it has none (lastMessage?._id is undefined)
Newest(msgs, c) ==
  LET mine == {i \in DOMAIN msgs : msgs[i].chat = c}
  IN IF mine = {} THEN 0 ELSE msgs[CHOOSE i \in mine : \A j \in mine : j <= i].id

\* DELETE /messages/:id (deleteMessage), up to await Message.findById
DeleteMessage(by, id) ==
  /\ CanRequest
  /\ nextId' = nextId + 1
  /\ tasks' = tasks \cup {[Request("deleteMessage", by, NoUser, NoChat, "findById") EXCEPT !.ids = {id}]}
  /\ last' = Pending
  /\ UNCHANGED <<sockVars, dbVars, processExited, boot, inbox>>

\* deleteMessage: Message.findById settles
DeleteFindById(t) ==
  /\ ~processExited
  /\ t \in tasks /\ t.kind = "deleteMessage" /\ t.pc = "findById"
  /\ \/ Finish(t, "failed", <<>>)
     \/ IF \A id \in t.ids : FindById(messages, id) = {}
        THEN Finish(t, "notfound", <<>>)
        ELSE \E id \in t.ids : \E m \in FindById(messages, id) :
               Advance(t, [t EXCEPT !.chat = m.chat, !.other = m.sender, !.pc = "findOne"])
  /\ UNCHANGED <<sockVars, nextId, dbVars, processExited, boot, inbox>>

\* if (chat.lastMessage?.toString() === id)
PointsAt(ptr, id) == ptr = id

\* deleteMessage: Chat.findOne settles; only a participant who is the sender or the
\* chat's admin goes on to Message.findByIdAndDelete
DeleteFindOne(t) ==
  /\ ~processExited
  /\ t \in tasks /\ t.kind = "deleteMessage" /\ t.pc = "findOne"
  /\ \/ Finish(t, "failed", <<>>)
     \/ IF ~IsParticipant(participants, t.chat, t.by) THEN Finish(t, "denied", <<>>)
        ELSE IF t.other # t.by /\ ChatAdmin(t.chat) # t.by THEN Finish(t, "forbidden", <<>>)
        ELSE Advance(t, [t EXCEPT !.ptr = lastMessage[t.chat], !.pc = "delete"])
  /\ UNCHANGED <<sockVars, nextId, dbVars, processExited, boot, inbox>>

\* deleteMessage: Message.findByIdAndDelete settles; the request is answered unless
\* the chat document the handler holds points at the deleted message
DeleteDelete(t) ==
  /\ ~processExited
  /\ t \in tasks /\ t.kind = "deleteMessage" /\ t.pc = "delete"
  /\ \/ /\ Finish(t, "failed", <<>>)
        /\ UNCHANGED messages
     \/ \E id \in t.ids :
          /\ messages' = DeleteById(messages, id)
          /\ IF PointsAt(t.ptr, id)
             THEN Advance(t, [t EXCEPT !.pc = "findNewest"])
             ELSE Finish(t, "ok", <<>>)
  /\ UNCHANGED <<sockVars, nextId, participants, chatDoc, lastMessage, isOnline, processExited, boot, inbox>>

\* deleteMessage: Message.findOne(...).sort(...) settles
DeleteFindNewest(t) ==
  /\ ~processExited
  /\ t \in tasks /\ t.kind = "deleteMessage" /\ t.pc = "findNewest"
  /\ \/ Finish(t, "failed", <<>>)
     \/ Advance(t, [t EXCEPT !.ptr = Newest(messages, t.chat), !.pc = "save"])
  /\ UNCHANGED <<sockVars, nextId, dbVars, processExited, boot, inbox>>

\* deleteMessage: chat.save() settles (chat.lastMessage = lastMessage?._id)
DeleteSave(t) ==
  /\ ~processExited
  /\ t \in tasks /\ t.kind = "deleteMessage" /\ t.pc = "save"
  /\ \/ /\ Finish(t, "failed", <<>>)
        /\ UNCHANGED lastMessage
     \/ /\ chatDoc[t.chat].exists
        /\ lastMessage' = ChatSave(lastMessage, t.chat, t.ptr)
        /\ Finish(t, "ok", <<>>)
  /\ UNCHANGED <<sockVars, nextId, participants, chatDoc, messages, isOnline, processExited, boot, inbox>>

\* ----------------------------------------------------------------- Next
MessageIds == {messages[i].id : i \in DOMAIN messages}
EventData == Chats \cup {NoData}

Next ==
  \/ \E enabled \in BOOLEAN : ConnectRedis(enabled)
  \/ \E outcome \in ConnectOutcomes : ConnectRedisSettles(outcome)
  \/ InitializeSocket
  \/ \E outcome \in ConnectOutcomes : AdapterSettles(outcome)
  \/ \E tok \in Tokens : Handshake(tok)
  \/ \E s \in SocketIds : SetupUpdateOnline(s)
  \/ \E s \in SocketIds : SetupFindChats(s)
  \/ \E s \in SocketIds : Disconnect(s)
  \/ \E t \in tasks : DisconnectUpdate(t)
  \/ \E s \in SocketIds, d \in EventData : JoinChat(s, d)
  \/ \E t \in tasks : JoinChatFindOne(t)
  \/ \E s \in SocketIds, d \in EventData : LeaveChat(s, d)
  \/ \E s \in SocketIds, d \in EventData, p \in Payloads : SendMessage(s, d, p)
  \/ \E t \in tasks : SendFindOne(t)
  \/ \E t \in tasks : SendCreate(t)
  \/ \E t \in tasks : SendSave(t)
  \/ \E t \in tasks : SendPopulate(t)
  \/ \E s \in SocketIds, d \in EventData : Typing(s, d)
  \/ \E t \in tasks : TypingFindOne(t)
  \/ \E s \in SocketIds, d \in EventData : StopTyping(s, d)
  \/ \E s \in SocketIds, d \in EventData, ids \in SUBSET MessageIds : ReadMessage(s, d, ids)
  \/ \E t \in tasks : ReadFindOne(t)
  \/ \E t \in tasks : ReadUpdateMany(t)
  \/ \E s \in SocketIds, d \in Statuses \cup {NoData} : PresenceUpdate(s, d)
  \/ \E s \in SocketIds, d \in EventData : NoListener(s, "send_message", d)
  \/ \E c \in Chats, by \in Accounts, u \in Accounts : AddParticipants(c, by, u)
  \/ \E t \in tasks : AddParticipantsFindOne(t)
  \/ \E t \in tasks : AddParticipantsSave(t)
  \/ \E c \in Chats, by \in Accounts, p \in Accounts : RemoveParticipant(c, by, p)
  \/ \E t \in tasks : RemoveParticipantFindOne(t)
  \/ \E t \in tasks : RemoveParticipantDelete(t)
  \/ \E t \in tasks : RemoveParticipantSave(t)
  \/ \E by \in Accounts, others \in SUBSET Accounts : CreateGroup(by, others)
  \/ \E by \in Accounts, o \in Accounts : CreateChat(by, o)
  \/ \E by \in Accounts, o \in Accounts : StartChat(by, o)
  \/ \E t \in tasks : ChatFindOne(t)
  \/ \E t \in tasks : ChatCreate(t)
  \/ \E t \in tasks : SendChatNotificationCreate(t)
  \/ \E t \in tasks : SendChatNotificationUpdate(t)
  \/ \E t \in tasks : SendChatNotificationEmit(t)
  \/ \E by \in Users, c \in Chats, p \in Payloads : RestSendMessage(by, c, p)
  \/ \E t \in tasks : RestSendFindOne(t)
  \/ \E t \in tasks : RestSendCreate(t)
  \/ \E t \in tasks : RestSendSave(t)
  \/ \E by \in Users, id \in MessageIds : DeleteMessage(by, id)
  \/ \E t \in tasks : DeleteFindById(t)
  \/ \E t \in tasks : DeleteFindOne(t)
  \/ \E t \in tasks : DeleteDelete(t)
  \/ \E t \in tasks : DeleteFindNewest(t)
  \/ \E t \in tasks : DeleteSave(t)

Spec == Init /\ [][Next]_vars

\* ------------------------------------------------------- specifications
\* connections only: connect, the two awaits of the connection handler, close, offline update
NextPresence ==
  \/ \E tok \in Tokens : Handshake(tok)
  \/ \E s \in SocketIds : SetupUpdateOnline(s)
  \/ \E s \in SocketIds : SetupFindChats(s)
  \/ \E s \in SocketIds : Disconnect(s)
  \/ \E t \in tasks : DisconnectUpdate(t)

SpecPresence == Init /\ [][NextPresence]_vars

\* connections come and go while the admin of the group chat adds participants
NextSnapshots ==
  \/ \E u \in Users : Connect(u, SignedToken(u))
  \/ \E s \in SocketIds : SetupUpdateOnline(s)
  \/ \E s \in SocketIds : SetupFindChats(s)
  \/ \E s \in SocketIds : Disconnect(s)
  \/ \E t \in tasks : DisconnectUpdate(t)
  \/ \E c \in Chats, by \in Users, u \in Users : AddParticipants(c, by, u)
  \/ \E t \in tasks : AddParticipantsFindOne(t)
  \/ \E t \in tasks : AddParticipantsSave(t)

SpecSnapshots == Init /\ [][NextSnapshots]_vars

\* connection attempts with any credential, and clients that send stop_typing over
\* whatever connection they hold
NextAuth ==
  \/ NextPresence
  \/ \E s \in SocketIds, d \in EventData : StopTyping(s, d)

SpecAuth == Init /\ [][NextAuth]_vars

\* the state once MaxSockets clients have connected and their connection handlers have
\* run to the end: every socket is registered, bulk-joined and has its listeners attached
\* who owns the established sockets: ids are handed out in connection order, and the
\* runs start after u1's devices connected first
ReadyAssignments ==
  {f \in [SocketIds -> Users] : \A i \in SocketIds : (i > 1 /\ f[i] = "u1") => f[i-1] = "u1"}

InitReady ==
  /\ participants = [c \in Chats |-> IF c = "c1" THEN {"u1", "u2"} ELSE {"u2"}]
  /\ chatDoc = StoredChats
  /\ boot = Listening
  /\ \E uof \in ReadyAssignments :
       /\ conn = [s \in SocketIds |-> [user |-> uof[s], open |-> TRUE, pc |-> "ready",
                                       chats |-> FindChats(participants, uof[s]),
                                       token |-> SignedToken(uof[s]),
                                       first |-> \A r \in SocketIds : r < s => uof[r] # uof[s]]]
       /\ connectedUsers = [u \in Users |->
                              SeqFilterOut([i \in SocketIds |-> IF uof[i] = u THEN i ELSE 0], 0)]
       /\ rooms = [c \in Chats |-> {s \in SocketIds : uof[s] \in participants[c]}]
       /\ isOnline = [u \in Users |-> \E s \in SocketIds : uof[s] = u]
  /\ tasks = {}
  /\ nextId = 1
  /\ messages = <<>>
  /\ lastMessage = [c \in Chats |-> 0]
  /\ processExited = FALSE
  /\ last = Step("init", 0, NoChat, "ok", <<>>)
  /\ inbox = [s \in SocketIds |-> <<>>]

\* the transports close and the offline updates settle
NextClose ==
  \/ \E s \in SocketIds : Disconnect(s)
  \/ \E t \in tasks : DisconnectUpdate(t)

\* the event handlers that are suspended at an await
InFlight == {t \in tasks : t.kind # "disconnect"}

\* clients that wait for the answer to a request before they send the next one
Idle == InFlight = {}

\* the payloads that pass the handler's validation and the schema's
ValidPayloads == {p \in Payloads : PassesValidation(p) /\ SchemaAccepts(p)}

\* established connections: sockets close and leave rooms at any time while clients
\* send valid messages one request at a time
NextFanout ==
  \/ NextClose
  \/ \E s \in SocketIds, d \in EventData : LeaveChat(s, d)
  \/ \E s \in SocketIds, d \in EventData, p \in ValidPayloads : Idle /\ SendMessage(s, d, p)
  \/ \E t \in tasks : SendFindOne(t)
  \/ \E t \in tasks : SendCreate(t)
  \/ \E t \in tasks : SendSave(t)
  \/ \E t \in tasks : SendPopulate(t)

SpecFanout == InitReady /\ [][NextFanout]_vars

\* established connections: sockets close while clients send messages of every shape,
\* one request at a time
NextValidate ==
  \/ NextClose
  \/ \E s \in SocketIds, d \in EventData, p \in Payloads : Idle /\ SendMessage(s, d, p)
  \/ \E t \in tasks : SendFindOne(t)
  \/ \E t \in tasks : SendCreate(t)
  \/ \E t \in tasks : SendSave(t)
  \/ \E t \in tasks : SendPopulate(t)

SpecValidate == InitReady /\ [][NextValidate]_vars

\* established connections: sockets close, leave rooms and join them again
NextJoin ==
  \/ NextClose
  \/ \E s \in SocketIds, d \in EventData : JoinChat(s, d)
  \/ \E t \in tasks : JoinChatFindOne(t)
  \/ \E s \in SocketIds, d \in EventData : LeaveChat(s, d)

SpecJoin == InitReady /\ [][NextJoin]_vars

\* messages stored by earlier runs of send_message (ids below those of this run's
\* events): one by each participant of c1, and one in c2
StoredMessages ==
  << NewMessage(-3, "c1", "u1"), NewMessage(-2, "c1", "u2"), NewMessage(-1, "c2", "u2") >>

\* established connections with stored messages
InitStored ==
  /\ participants = [c \in Chats |-> IF c = "c1" THEN {"u1", "u2"} ELSE {"u2"}]
  /\ chatDoc = StoredChats
  /\ boot = Listening
  /\ \E uof \in ReadyAssignments :
       /\ conn = [s \in SocketIds |-> [user |-> uof[s], open |-> TRUE, pc |-> "ready",
                                       chats |-> FindChats(participants, uof[s]),
                                       token |-> SignedToken(uof[s]),
                                       first |-> \A r \in SocketIds : r < s => uof[r] # uof[s]]]
       /\ connectedUsers = [u \in Users |->
                              SeqFilterOut([i \in SocketIds |-> IF uof[i] = u THEN i ELSE 0], 0)]
       /\ rooms = [c \in Chats |-> {s \in SocketIds : uof[s] \in participants[c]}]
       /\ isOnline = [u \in Users |-> \E s \in SocketIds : uof[s] = u]
  /\ tasks = {}
  /\ nextId = 1
  /\ messages = StoredMessages
  /\ lastMessage = [c \in Chats |-> IF c = "c1" THEN -2 ELSE -1]
  /\ processExited = FALSE
  /\ last = Step("init", 0, NoChat, "ok", <<>>)
  /\ inbox = [s \in SocketIds |-> <<>>]

\* established connections and stored messages: sockets close while clients send
\* read receipts, one request at a time
NextRead ==
  \/ NextClose
  \/ \E s \in SocketIds, d \in EventData, ids \in SUBSET MessageIds : Idle /\ ReadMessage(s, d, ids)
  \/ \E t \in tasks : ReadFindOne(t)
  \/ \E t \in tasks : ReadUpdateMany(t)

SpecRead == InitStored /\ [][NextRead]_vars

\* established connections that stay: concurrent send_message handlers
NextSend ==
  \/ \E s \in SocketIds, d \in EventData, p \in Payloads : SendMessage(s, d, p)
  \/ \E t \in tasks : SendFindOne(t)
  \/ \E t \in tasks : SendCreate(t)
  \/ \E t \in tasks : SendSave(t)
  \/ \E t \in tasks : SendPopulate(t)

SpecSend == InitReady /\ [][NextSend]_vars

\* established connections: sockets close and leave rooms while clients type
NextTyping ==
  \/ NextClose
  \/ \E s \in SocketIds, d \in EventData : LeaveChat(s, d)
  \/ \E s \in SocketIds, d \in EventData : Typing(s, d)
  \/ \E t \in tasks : TypingFindOne(t)

SpecTyping == InitReady /\ [][NextTyping]_vars

\* established connections: every inbound event
NextEvents ==
  \/ NextClose
  \/ \E s \in SocketIds, d \in EventData : JoinChat(s, d)
  \/ \E t \in tasks : JoinChatFindOne(t)
  \/ \E s \in SocketIds, d \in EventData : LeaveChat(s, d)
  \/ \E s \in SocketIds, d \in EventData, p \in Payloads : SendMessage(s, d, p)
  \/ \E t \in tasks : SendFindOne(t)
  \/ \E t \in tasks : SendCreate(t)
  \/ \E t \in tasks : SendSave(t)
  \/ \E t \in tasks : SendPopulate(t)
  \/ \E s \in SocketIds, d \in EventData : Typing(s, d)
  \/ \E t \in tasks : TypingFindOne(t)
  \/ \E s \in SocketIds, d \in EventData : StopTyping(s, d)
  \/ \E s \in SocketIds, d \in EventData, ids \in SUBSET MessageIds : ReadMessage(s, d, ids)
  \/ \E t \in tasks : ReadFindOne(t)
  \/ \E t \in tasks : ReadUpdateMany(t)
  \/ \E s \in SocketIds, d \in Statuses \cup {NoData} : PresenceUpdate(s, d)

SpecEvents == InitReady /\ [][NextEvents]_vars

\* ------------------------------------------- specifications: REST chats
\* a database holding the given Chat documents, and a server that listens
Stored(parts, docs, msgs, lm) ==
  /\ participants = parts
  /\ chatDoc = docs
  /\ messages = msgs
  /\ lastMessage = lm
  /\ boot = Listening
  /\ tasks = {}
  /\ nextId = 1
  /\ processExited = FALSE
  /\ last = Step("init", 0, NoChat, "ok", <<>>)
  /\ inbox = [s \in SocketIds |-> <<>>]

\* MaxSockets clients are connected and their connection handlers have run to the end
Established ==
  \E uof \in ReadyAssignments :
    /\ conn = [s \in SocketIds |-> [user |-> uof[s], open |-> TRUE, pc |-> "ready",
                                    chats |-> FindChats(participants, uof[s]),
                                    token |-> SignedToken(uof[s]),
                                    first |-> \A r \in SocketIds : r < s => uof[r] # uof[s]]]
    /\ connectedUsers = [u \in Users |->
                           SeqFilterOut([i \in SocketIds |-> IF uof[i] = u THEN i ELSE 0], 0)]
    /\ rooms = [c \in Chats |-> {s \in SocketIds : uof[s] \in participants[c]}]
    /\ isOnline = [u \in Users |-> \E s \in SocketIds : uof[s] = u]

\* nobody is connected
NoConnections ==
  /\ conn = InitConn
  /\ connectedUsers = [u \in Users |-> <<>>]
  /\ rooms = [c \in Chats |-> {}]
  /\ isOnline = [u \in Users |-> FALSE]

\* established connections and no chat yet
InitDirect ==
  /\ Stored([c \in Chats |-> {}], [c \in Chats |-> NoDoc], <<>>, [c \in Chats |-> 0])
  /\ Established

\* the createChat (one-to-one) and startChat handlers from their first await on
NextChatSteps ==
  \/ \E t \in tasks : ChatFindOne(t)
  \/ \E t \in tasks : ChatCreate(t)
  \/ \E t \in tasks : SendChatNotificationCreate(t)
  \/ \E t \in tasks : SendChatNotificationUpdate(t)
  \/ \E t \in tasks : SendChatNotificationEmit(t)

\* established connections that close at any time while users (connected or not) ask
\* for one-to-one chats, one request at a time
NextNotify ==
  \/ NextClose
  \/ \E by \in Accounts, o \in Accounts : Idle /\ CreateChat(by, o)
  \/ \E by \in Accounts, o \in Accounts : Idle /\ StartChat(by, o)
  \/ NextChatSteps

SpecNotify == InitDirect /\ [][NextNotify]_vars

\* established connections that stay: concurrent requests for one-to-one chats
NextDirect ==
  \/ \E by \in Accounts, o \in Accounts : CreateChat(by, o)
  \/ \E by \in Accounts, o \in Accounts : StartChat(by, o)
  \/ NextChatSteps

SpecDirect == InitDirect /\ [][NextDirect]_vars

\* nobody connected; group chat c1 with admin u2 and any further participants (as
\* createChat and earlier removals leave it), and no other chat
InitGroups ==
  /\ \E others \in SUBSET Accounts :
       Stored([c \in Chats |-> IF c = "c1" THEN {"u2"} \cup others ELSE {}],
              [c \in Chats |-> IF c = "c1" THEN ChatDoc(TRUE, "u2", 0) ELSE NoDoc],
              <<>>, [c \in Chats |-> 0])
  /\ NoConnections

\* concurrent requests that create group chats and add and remove participants
NextGroups ==
  \/ \E by \in Accounts, others \in SUBSET Accounts : CreateGroup(by, others)
  \/ \E t \in tasks : ChatCreate(t)
  \/ \E c \in Chats, by \in Accounts, u \in Accounts : AddParticipants(c, by, u)
  \/ \E t \in tasks : AddParticipantsFindOne(t)
  \/ \E t \in tasks : AddParticipantsSave(t)
  \/ \E c \in Chats, by \in Accounts, p \in Accounts : RemoveParticipant(c, by, p)
  \/ \E t \in tasks : RemoveParticipantFindOne(t)
  \/ \E t \in tasks : RemoveParticipantDelete(t)
  \/ \E t \in tasks : RemoveParticipantSave(t)

SpecGroups == InitGroups /\ [][NextGroups]_vars

\* established connections, all joined to the rooms of their users' chats; group chat
\* c1 with admin u2 and any further participants, and no other chat
InitRemoval ==
  /\ \E others \in SUBSET Accounts :
       Stored([c \in Chats |-> IF c = "c1" THEN {"u2"} \cup others ELSE {}],
              [c \in Chats |-> IF c = "c1" THEN ChatDoc(TRUE, "u2", 0) ELSE NoDoc],
              <<>>, [c \in Chats |-> 0])
  /\ Established

\* participants are removed from the group while the connections stay and send, type
\* and mark as read; every client waits for the answer before the next request
NextRemoval ==
  \/ \E c \in Chats, by \in Accounts, p \in Accounts : Idle /\ RemoveParticipant(c, by, p)
  \/ \E t \in tasks : RemoveParticipantFindOne(t)
  \/ \E t \in tasks : RemoveParticipantDelete(t)
  \/ \E t \in tasks : RemoveParticipantSave(t)
  \/ \E s \in SocketIds, d \in EventData, p \in ValidPayloads : Idle /\ SendMessage(s, d, p)
  \/ \E t \in tasks : SendFindOne(t)
  \/ \E t \in tasks : SendCreate(t)
  \/ \E t \in tasks : SendSave(t)
  \/ \E t \in tasks : SendPopulate(t)
  \/ \E s \in SocketIds, d \in EventData : Idle /\ Typing(s, d)
  \/ \E t \in tasks : TypingFindOne(t)
  \/ \E s \in SocketIds, d \in EventData, ids \in SUBSET MessageIds : Idle /\ ReadMessage(s, d, ids)
  \/ \E t \in tasks : ReadFindOne(t)
  \/ \E t \in tasks : ReadUpdateMany(t)

SpecRemoval == InitRemoval /\ [][NextRemoval]_vars

\* ------------------------------------------- specifications: startup
\* the process right after connectDatabase, with the stored chats
InitStart ==
  /\ participants = [c \in Chats |-> IF c = "c1" THEN {"u1", "u2"} ELSE {"u2"}]
  /\ chatDoc = StoredChats
  /\ messages = <<>>
  /\ lastMessage = [c \in Chats |-> 0]
  /\ boot = Started
  /\ tasks = {}
  /\ nextId = 1
  /\ processExited = FALSE
  /\ last = Step("init", 0, NoChat, "ok", <<>>)
  /\ inbox = [s \in SocketIds |-> <<>>]
  /\ NoConnections

NextStartup ==
  \/ \E enabled \in BOOLEAN : ConnectRedis(enabled)
  \/ \E outcome \in ConnectOutcomes : ConnectRedisSettles(outcome)
  \/ InitializeSocket
  \/ \E outcome \in ConnectOutcomes : AdapterSettles(outcome)

\* startup in every backplane outcome, then clients that connect and send events
NextBackplane ==
  \/ NextStartup
  \/ NextAuth

SpecBackplane == InitStart /\ [][NextBackplane]_vars

\* --------------------------------- specifications: events during setup
\* clients connect and send send_message as soon as the handshake succeeded, one
\* request at a time; connections close at any time
NextEarly ==
  \/ \E u \in Users : Connect(u, SignedToken(u))
  \/ \E s \in SocketIds : SetupUpdateOnline(s)
  \/ \E s \in SocketIds : SetupFindChats(s)
  \/ \E s \in SocketIds : Disconnect(s)
  \/ \E t \in tasks : DisconnectUpdate(t)
  \/ \E s \in SocketIds, d \in EventData : NoListener(s, "send_message", d)
  \/ \E s \in SocketIds, d \in EventData, p \in ValidPayloads : Idle /\ SendMessage(s, d, p)
  \/ \E t \in tasks : SendFindOne(t)
  \/ \E t \in tasks : SendCreate(t)
  \/ \E t \in tasks : SendSave(t)
  \/ \E t \in tasks : SendPopulate(t)

\* every awaited database call settles: a suspended handler is resumed eventually
SpecEarly ==
  /\ Init /\ [][NextEarly]_vars
  /\ WF_vars(\E s \in SocketIds : SetupUpdateOnline(s))
  /\ WF_vars(\E s \in SocketIds : SetupFindChats(s))
  /\ WF_vars(\E t \in tasks : DisconnectUpdate(t))
  /\ WF_vars(\E t \in tasks : SendFindOne(t))
  /\ WF_vars(\E t \in tasks : SendCreate(t))
  /\ WF_vars(\E t \in tasks : SendSave(t))
  /\ WF_vars(\E t \in tasks : SendPopulate(t))

\* ------------------------------------------ specifications: messages
\* the sendMessage and deleteMessage controllers from their first await on
NextRestSend ==
  \/ \E t \in tasks : RestSendFindOne(t)
  \/ \E t \in tasks : RestSendCreate(t)
  \/ \E t \in tasks : RestSendSave(t)

NextDelete ==
  \/ \E t \in tasks : DeleteFindById(t)
  \/ \E t \in tasks : DeleteFindOne(t)
  \/ \E t \in tasks : DeleteDelete(t)
  \/ \E t \in tasks : DeleteFindNewest(t)
  \/ \E t \in tasks : DeleteSave(t)

\* established connections that stay: concurrent sends over sockets and over REST
NextLastMessage ==
  \/ NextSend
  \/ \E by \in Users, c \in Chats, p \in Payloads : RestSendMessage(by, c, p)
  \/ NextRestSend

SpecLastMessage == InitReady /\ [][NextLastMessage]_vars

\* established connections that stay and stored messages: concurrent sends and deletes
NextMessages ==
  \/ \E s \in SocketIds, d \in Chats, p \in ValidPayloads : SendMessage(s, d, p)
  \/ \E t \in tasks : SendFindOne(t)
  \/ \E t \in tasks : SendCreate(t)
  \/ \E t \in tasks : SendSave(t)
  \/ \E t \in tasks : SendPopulate(t)
  \/ \E by \in Users, c \in Chats, p \in ValidPayloads : RestSendMessage(by, c, p)
  \/ NextRestSend
  \/ \E by \in Users, id \in MessageIds : DeleteMessage(by, id)
  \/ NextDelete

SpecMessages == InitStored /\ [][NextMessages]_vars

\* ================================================================ claims
\* the emit calls of the last step that carry event ev
EmitsOf(ev) == {i \in DOMAIN last.emits : last.emits[i].ev = ev}
UserOf(s) == conn[s].user
Registered(s) == \E u \in Users : s \in Range(connectedUsers[u])
\* the last step ended a handler of one of the kinds in ops
Ended(ops) == last.op \in ops /\ last.outcome # "pending"

\* C1: a send_message that passed validation and persistence emits exactly one
\* new_message, delivered to exactly the connections that are members of the room at
\* emission time, the sender's connection among them, and exactly one message_sent,
\* delivered to the sender's connection and to no other.
C1_SendFanout ==
  (last.op = "send_message" /\ last.outcome = "ok") =>
    /\ Cardinality(EmitsOf("new_message")) = 1
    /\ Cardinality(EmitsOf("message_sent")) = 1
    /\ \A i \in EmitsOf("new_message") :
         /\ last.emits[i].to = RoomMembers(rooms, conn, last.chat)
         /\ conn[last.sock].open => last.sock \in last.emits[i].to
    /\ \A i \in EmitsOf("message_sent") :
         /\ last.emits[i].to \subseteq {last.sock}
         /\ conn[last.sock].open => last.emits[i].to = {last.sock}

\* C1 witness: a send completed, the sender and another connection received new_message
C1_Witness ==
  /\ last.op = "send_message" /\ last.outcome = "ok"
  /\ \E i \in EmitsOf("new_message") :
       /\ last.sock \in last.emits[i].to
       /\ Cardinality(last.emits[i].to) >= 2
  /\ \E i \in EmitsOf("message_sent") : last.emits[i].to = {last.sock}

\* C2 (as claimed): the connection handler of a connection that was registered while an
\* earlier connection of the same user was registered emits no user_online.
C2_OnlineOncePerEdge ==
  (last.op = "connection" /\ last.outcome = "ok"
     /\ \E i, j \in DOMAIN connectedUsers[UserOf(last.sock)] :
          i < j /\ connectedUsers[UserOf(last.sock)][j] = last.sock)
  => EmitsOf("user_online") = {}

\* the step closes socket s and its disconnect handler ends with `outcome`
DisconnectStep(s, outcome) ==
  /\ conn[s].open /\ ~conn'[s].open
  /\ last'.op = "disconnect" /\ last'.sock = s /\ last'.outcome = outcome

\* C3: a disconnect handler takes the offline path exactly when it removes the user's
\* last registry entry, and then no connection of the user is open; a handler that sees
\* "not last" leaves another entry registered; user_offline is emitted only by the
\* handler that took the offline path, exactly once per chat room of the user.
C3_OfflineOnLastDisconnect ==
  [][\A s \in SocketIds :
       LET u == UserOf(s) IN
       /\ DisconnectStep(s, "offline") =>
            /\ connectedUsers[u] # <<>> /\ connectedUsers'[u] = <<>>
            /\ \A r \in SocketIds : conn'[r].user = u => ~conn'[r].open
       /\ (conn[s].open /\ ~conn'[s].open /\ ~processExited' /\ u \in Users
             /\ connectedUsers[u] # <<>> /\ connectedUsers'[u] = <<>>)
            => DisconnectStep(s, "offline")
       /\ DisconnectStep(s, "notlast") =>
            /\ s \notin Range(connectedUsers'[u])
            /\ connectedUsers'[u] # <<>>
       /\ (\E i \in DOMAIN last'.emits : last'.emits[i].ev = "user_offline") =>
            /\ last'.op = "disconnect" /\ last'.outcome = "ok"
            /\ \E t \in tasks : t.kind = "disconnect" /\ t.sock = last'.sock /\ t \notin tasks'
       /\ (last'.op = "disconnect" /\ last'.outcome = "ok" /\ last'.sock = s /\ last' # last) =>
            \A c \in Chats :
              Cardinality({i \in DOMAIN last'.emits :
                             last'.emits[i].ev = "user_offline" /\ last'.emits[i].chat = c})
                = IF c \in conn[s].chats THEN 1 ELSE 0
    ]_vars

\* C3 witness: a user's two connections have both closed and the handler of the one that
\* closed last has emitted user_offline
C3_Witness ==
  /\ last.op = "disconnect" /\ last.outcome = "ok"
  /\ EmitsOf("user_offline") # {}
  /\ \E r \in SocketIds :
       /\ r # last.sock /\ conn[r].user = UserOf(last.sock)
       /\ conn[r].pc = "ready" /\ ~conn[r].open /\ ~conn[last.sock].open
  /\ connectedUsers[UserOf(last.sock)] = <<>>

\* C4 (as claimed): a join_chat of a non-participant leaves the connection out of the
\* room and delivers an error event to the requesting connection.
C4_JoinDeniedError ==
  (Ended({"join_chat"}) /\ last.chat \in Chats /\ conn[last.sock].open
     /\ ~IsParticipant(participants, last.chat, UserOf(last.sock)))
  => /\ last.sock \notin rooms[last.chat]
     /\ \E i \in EmitsOf("error") : last.emits[i].to = {last.sock}

\* C5: a typing event of a participant's connection X delivers user_typing to every
\* connection that is a member of the room at that time other than X, and never to X.
C5_TypingExcludesSender ==
  (last.op = "typing" /\ last.outcome = "ok") =>
    /\ Cardinality(EmitsOf("user_typing")) = 1
    /\ \A i \in EmitsOf("user_typing") :
         /\ last.emits[i].to = RoomMembers(rooms, conn, last.chat) \ {last.sock}
         /\ last.sock \notin last.emits[i].to

\* C5 witness: the typing connection is an open member of the room and another member got user_typing
C5_Witness ==
  /\ last.op = "typing" /\ last.outcome = "ok"
  /\ last.sock \in RoomMembers(rooms, conn, last.chat)
  /\ \E i \in EmitsOf("user_typing") : last.emits[i].to # {}

\* the chat of a persisted message
ChatOfMessage(id) == (CHOOSE i \in DOMAIN messages : messages[i].id = id)

\* C6 (as claimed): every connection observes the new_message events of one chat in the
\* order in which the dispatcher received their send_message events.
C6_PerRoomOrder ==
  \A s \in SocketIds : \A i, j \in DOMAIN inbox[s] :
    (i < j /\ messages[ChatOfMessage(inbox[s][i])].chat = messages[ChatOfMessage(inbox[s][j])].chat)
      => inbox[s][i] < inbox[s][j]

RoomEvents == {"new_message", "user_typing", "user_stop_typing", "messages_read"}

\* C7 (as claimed): an inbound send_message, typing, stop_typing or read_message of a
\* connection whose user is not a participant of the chat delivers no outbound room event.
C7_NonParticipantSilent ==
  (Ended({"send_message", "typing", "stop_typing", "read_message"}) /\ last.chat \in Chats
     /\ ~processExited
     /\ ~IsParticipant(participants, last.chat, UserOf(last.sock)))
  => \A i \in DOMAIN last.emits : last.emits[i].ev \in RoomEvents => last.emits[i].to = {}

\* C8 (as claimed): no failure in the socket layer ends the server process.
C8_NeverExits == ~processExited

\* C9 (as claimed): a send_message, read_message, typing or stop_typing whose participant
\* precondition fails or whose collaborator call fails delivers exactly one error event,
\* to the originating connection only.
C9_ErrorOnFailure ==
  (Ended({"send_message", "read_message", "typing", "stop_typing"}) /\ last.chat \in Chats
     /\ ~processExited /\ conn[last.sock].open
     /\ (last.outcome = "failed" \/ ~IsParticipant(participants, last.chat, UserOf(last.sock))))
  => /\ Len(last.emits) = 1
     /\ last.emits[1].ev = "error"
     /\ last.emits[1].to = {last.sock}

\* C10 (as claimed): once the transport of a connection has closed and its connection
\* handler has run to the end, the registry no longer holds the connection.
C10_ClosedIsUnregistered ==
  \A s \in SocketIds : (~conn[s].open /\ conn[s].pc = "ready") => ~Registered(s)

\* a credential the handshake must not accept: none, or one that fails verification
InvalidCredential(tok) == tok = "none" \/ ~(\E u \in Users : tok = SignedToken(u))

\* the connection attempts that presented an invalid credential
RejectedSockets == {s \in SocketIds : conn[s].pc # "unused" /\ InvalidCredential(conn[s].token)}

\* C11: a connection attempt that presents no credential or an invalid one is answered
\* with a connection-level error and nothing else: it is never in the registry, never in
\* a room, no handler runs or is suspended for it, no step other than its rejection is
\* attributed to it, and its rejection leaves the persisted presence unchanged.
C11_InvalidCredentialRejected ==
  /\ [](\A s \in RejectedSockets :
          /\ conn[s].pc = "rejected" /\ ~conn[s].open
          /\ ~Registered(s)
          /\ \A c \in Chats : s \notin rooms[c]
          /\ \A t \in tasks : t.sock # s
          /\ last.sock = s =>
               /\ last.op = "handshake" /\ last.outcome = "rejected"
               /\ Len(last.emits) = 1
               /\ last.emits[1].ev = "connect_error" /\ last.emits[1].to = {s}
          /\ \A i \in DOMAIN last.emits : s \in last.emits[i].to => last.sock = s)
  /\ [][\A s \in SocketIds :
          (conn[s].pc = "unused" /\ conn'[s].pc # "unused" /\ InvalidCredential(conn'[s].token))
            => /\ isOnline' = isOnline
               /\ connectedUsers' = connectedUsers
               /\ rooms' = rooms]_vars

\* C11 witness: an attempt with a token that fails verification has just been rejected
\* while an authenticated connection of the user it claims to be is established
C11_Witness ==
  /\ last.op = "handshake" /\ last.outcome = "rejected"
  /\ conn[last.sock].token = "bad"
  /\ \E r \in SocketIds : conn[r].pc = "ready" /\ conn[r].open /\ conn[r].user = "u1"

\* C12 (as claimed): a connection enters a room only by its own bulk-join at connect or
\* its own join_chat for that room, and leaves it only by its own leave_chat for that
\* room or its own disconnect (or with the process).
C12_MembershipOwnEventsOnly ==
  [][\A s \in SocketIds, c \in Chats :
       /\ (s \notin rooms[c] /\ s \in rooms'[c]) =>
            /\ last'.sock = s
            /\ \/ last'.op = "connection"
               \/ last'.op = "join_chat" /\ last'.chat = c
       /\ (s \in rooms[c] /\ s \notin rooms'[c]) =>
            \/ last'.sock = s /\ last'.op = "leave_chat" /\ last'.chat = c
            \/ last'.sock = s /\ last'.op = "disconnect"
            \/ processExited'
    ]_vars

\* the ids carried by the new_message and message_sent emissions of the last step
AnnouncedIds ==
  {last.emits[i].data : i \in EmitsOf("new_message") \cup EmitsOf("message_sent")}

\* C13: new_message and message_sent are emitted only by a send_message handler that ran
\* to its end, for a message that is persisted in the chat and to which the chat's
\* last-message pointer has been set; a send_message that ended in a failure emitted
\* neither.
C13_PersistBeforeEmit ==
  /\ AnnouncedIds # {} =>
       /\ last.op = "send_message" /\ last.outcome = "ok"
       /\ \A m \in AnnouncedIds :
            /\ \E i \in DOMAIN messages : messages[i].id = m /\ messages[i].chat = last.chat
            /\ lastMessage[last.chat] = m
  /\ (last.op = "send_message" /\ last.outcome # "ok") => AnnouncedIds = {}

\* C13 witness: a send_message has just announced a message to a listener; the message
\* is stored and is the chat's last message
C13_Witness ==
  /\ last.op = "send_message" /\ last.outcome = "ok"
  /\ \E i \in EmitsOf("new_message") :
       /\ last.emits[i].to # {}
       /\ lastMessage[last.chat] = last.emits[i].data
       /\ \E k \in DOMAIN messages : messages[k].id = last.emits[i].data

\* a payload the contract refuses: effective type text without content, or image/file
\* without a fileUrl
RefusedPayload(p) ==
  \/ p.type \in {"text", "none"} /\ ~p.content
  \/ p.type \in {"image", "file"} /\ ~p.fileUrl

\* the send_message handlers that hold a refused payload (the payload is held until
\* Message.create has settled)
RefusedSends ==
  {t \in tasks : t.kind = "send_message" /\ t.pc \in {"findOne", "create"} /\ RefusedPayload(t.payload)}

\* C14: a send_message with a refused payload never gets past Message.create, no message
\* with its id is ever stored, and the step that ends its handler emits exactly one
\* event: error, to the sender (nothing else, in particular no new_message and no
\* message_sent).
C14_RefusedPayloadDropped ==
  [][\A t \in RefusedSends :
       /\ \A k \in DOMAIN messages' : messages'[k].id # t.id
       /\ \A t2 \in tasks' : t2.id = t.id => t2.pc \in {"findOne", "create"} /\ t2.payload = t.payload
       /\ ((\A t2 \in tasks' : t2.id # t.id) /\ ~processExited') =>
            /\ last'.op = "send_message" /\ last'.sock = t.sock
            /\ last'.outcome \notin {"ok", "pending"}
            /\ Len(last'.emits) = 1
            /\ last'.emits[1].ev = "error"
            /\ last'.emits[1].to = {t.sock} \cap Connected(conn')
    ]_vars

\* C14 witness: a participant's send_message without type and without content passed
\* the handler's own checks, was refused by Message.create, and the sender got error
C14_Witness ==
  /\ last.op = "send_message" /\ last.outcome = "rejected"
  /\ IsParticipant(participants, last.chat, UserOf(last.sock))
  /\ \E i \in EmitsOf("error") : last.emits[i].to = {last.sock}
  /\ \A k \in DOMAIN messages : messages[k].chat # last.chat

\* C15 (as claimed): when the handler of a send_message ends with an error, no message
\* of that event is stored and the chat's last-message pointer does not point to it.
C15_FailedSendLeavesNothing ==
  [][\A t \in tasks :
       (/\ t.kind = "send_message"
        /\ \A t2 \in tasks' : t2.id # t.id
        /\ ~processExited'
        /\ last'.op = "send_message" /\ last'.outcome # "ok"
        /\ \E i \in DOMAIN last'.emits : last'.emits[i].ev = "error")
       => /\ \A k \in DOMAIN messages' : messages'[k].id # t.id
          /\ lastMessage'[t.chat] # t.id
    ]_vars

\* C16: the step that ends a participant's join_chat for chat C with success leaves the
\* requesting connection in room C, changes the membership of no other connection and
\* of no other room, and emits exactly one event: joined_chat, to the requesting
\* connection only.
C16_JoinConfirmedToRequester ==
  [][(last'.op = "join_chat" /\ last'.outcome = "ok") =>
       LET s == last'.sock
           c == last'.chat
       IN /\ IsParticipant(participants, c, UserOf(s))
          /\ s \in rooms'[c]
          /\ \A r \in SocketIds, c2 \in Chats :
               (r # s \/ c2 # c) => (r \in rooms'[c2] <=> r \in rooms[c2])
          /\ Len(last'.emits) = 1
          /\ last'.emits[1].ev = "joined_chat"
          /\ last'.emits[1].chat = c
          /\ last'.emits[1].to \subseteq {s}
          /\ conn'[s].open => last'.emits[1].to = {s}
    ]_vars

\* C16 witness: a join_chat succeeded, joined_chat went to the requester, and another
\* connection is a connected member of the same room
C16_Witness ==
  /\ last.op = "join_chat" /\ last.outcome = "ok"
  /\ last.sock \in RoomMembers(rooms, conn, last.chat)
  /\ \E r \in RoomMembers(rooms, conn, last.chat) : r # last.sock
  /\ \E i \in EmitsOf("joined_chat") : last.emits[i].to = {last.sock}

\* the step ends the join_chat handler t otherwise than by a failure of Chat.findOne
JoinAnswered(t) ==
  /\ t \in tasks /\ t.kind = "join_chat" /\ t \notin tasks'
  /\ ~processExited' /\ last'.outcome # "failed"

\* C17: a participant's join_chat for a room its connection is already in, and any
\* connection's leave_chat for a room it is not in (participant or not), leave every
\* room's member set unchanged and emit exactly one event, joined_chat / left_chat, to
\* the requesting connection: no error.
C17_JoinLeaveIdempotent ==
  [][/\ \A t \in tasks :
          (/\ JoinAnswered(t)
           /\ t.sock \in rooms[t.chat]
           /\ IsParticipant(participants, t.chat, UserOf(t.sock)))
          => /\ rooms' = rooms
             /\ last'.op = "join_chat" /\ last'.sock = t.sock /\ last'.chat = t.chat
             /\ Len(last'.emits) = 1
             /\ last'.emits[1].ev = "joined_chat"
             /\ last'.emits[1].to = {t.sock} \cap Connected(conn')
     /\ (/\ last'.op = "leave_chat" /\ last'.outcome = "ok" /\ nextId' = nextId + 1
         /\ last'.sock \notin rooms[last'.chat])
        => /\ rooms' = rooms
           /\ Len(last'.emits) = 1
           /\ last'.emits[1].ev = "left_chat"
           /\ last'.emits[1].to = {last'.sock}
    ]_vars

\* C17 witness: a connection whose user is not a participant of the chat, and so has
\* never been in its room, sent leave_chat for it and got left_chat
C17_Witness ==
  /\ last.op = "leave_chat" /\ last.outcome = "ok"
  /\ ~IsParticipant(participants, last.chat, UserOf(last.sock))
  /\ last.sock \notin rooms[last.chat]
  /\ \E i \in EmitsOf("left_chat") : last.emits[i].to = {last.sock}

\* message k is one that read_message handler t has to mark: it belongs to t's chat, was
\* authored by another user, and is listed when a non-empty list was given
ToBeMarked(t, k) ==
  /\ messages[k].chat = t.chat
  /\ messages[k].sender # UserOf(t.sock)
  /\ t.ids # {} => messages[k].id \in t.ids

\* C18: the step in which a participant's read_message succeeds adds the user to readBy
\* of exactly the messages of the chat that others authored (restricted to the listed
\* ids when a non-empty list was given), changes nothing else in the collection, and
\* emits exactly one event: messages_read, to the connected members of the room except
\* the sending connection.
C18_ReadMarksOthersInChat ==
  [][\A t \in tasks :
       (/\ t.kind = "read_message" /\ t \notin tasks'
        /\ last'.op = "read_message" /\ last'.outcome = "ok")
       => LET u == UserOf(t.sock) IN
          /\ IsParticipant(participants, t.chat, u)
          /\ Len(messages') = Len(messages)
          /\ \A k \in DOMAIN messages :
               /\ messages'[k].id = messages[k].id
               /\ messages'[k].chat = messages[k].chat
               /\ messages'[k].sender = messages[k].sender
               /\ messages'[k].readBy =
                    IF ToBeMarked(t, k) THEN messages[k].readBy \cup {u} ELSE messages[k].readBy
          /\ Len(last'.emits) = 1
          /\ last'.emits[1].ev = "messages_read"
          /\ last'.emits[1].chat = t.chat
          /\ last'.emits[1].to = RoomMembers(rooms', conn', t.chat) \ {t.sock}
          /\ t.sock \notin last'.emits[1].to
    ]_vars

\* C18 witness: after a read_message of u2 for c1 the message u1 wrote in c1 is read by
\* u2, u2's own message in c1 and the message in c2 are not, and another connection
\* received messages_read
C18_Witness ==
  /\ last.op = "read_message" /\ last.outcome = "ok" /\ last.chat = "c1"
  /\ UserOf(last.sock) = "u2"
  /\ \E k \in DOMAIN messages :
       messages[k].chat = "c1" /\ messages[k].sender = "u1" /\ "u2" \in messages[k].readBy
  /\ \A k \in DOMAIN messages :
       (messages[k].chat # "c1" \/ messages[k].sender = "u2") => "u2" \notin messages[k].readBy
  /\ \E i \in EmitsOf("messages_read") : last.emits[i].to # {} /\ last.sock \notin last.emits[i].to

\* C19 (as claimed): a presence_update delivers user_presence, with the status it was
\* given, for exactly the rooms the sending connection is a member of at that time: the
\* members of a room it has left receive nothing.
C19_PresenceToCurrentRooms ==
  (last.op = "presence_update" /\ last.outcome = "ok") =>
    \A c \in Chats :
      LET delivered == {i \in EmitsOf("user_presence") :
                          last.emits[i].chat = c /\ last.emits[i].to # {}}
      IN /\ last.sock \in rooms[c] =>
              /\ delivered # {}
              /\ \A i \in delivered : last.emits[i].data \in Statuses
         /\ last.sock \notin rooms[c] => delivered = {}

\* the connection whose handler created the registry entry that connection s was
\* registered under: the offline-to-online edge of s's online period
EdgeOf(s) ==
  CHOOSE e \in SocketIds :
    /\ conn[e].user = UserOf(s) /\ conn[e].first /\ e <= s
    /\ \A e2 \in SocketIds : (conn[e2].user = UserOf(s) /\ conn[e2].first /\ e2 <= s) => e2 <= e

\* C20 (as claimed): the rooms to which a disconnect handler emits user_offline are the
\* rooms to which user_online was emitted when the user came online, i.e. the rooms
\* the connection that opened the online period was bulk-joined to.
C20_OfflineRoomsAreOnlineRooms ==
  (last.op = "disconnect" /\ last.outcome = "ok" /\ conn[EdgeOf(last.sock)].pc = "ready") =>
    {last.emits[i].chat : i \in EmitsOf("user_offline")} = conn[EdgeOf(last.sock)].chats

\* ---------------------------------------------------------------- C21
\* the requests for a one-to-one chat that answer in this step
Answering(t) ==
  /\ t \in tasks /\ t \notin tasks'
  /\ t.kind \in {"createChat", "startChat"} /\ t.other # NoUser
  /\ last'.op = t.kind /\ last'.outcome # "crash"
\* the new_chat emissions of the step
NewChats == {i \in DOMAIN last'.emits : last'.emits[i].ev = "new_chat"}
\* the open connections of user u
LiveOf(u) == {s \in SocketIds : conn[s].open /\ conn[s].user = u}

\* C21 (as amended): a request for a one-to-one chat emits new_chat at most once, to one
\* open connection of the user the request names as the other participant and about
\* the chat it created; it emits it exactly when sendChatNotification ran to its end
\* and that user has an open connection at that moment.  A request that finds an
\* existing chat, that fails, or whose notification fails emits nothing.
C21_NewChatToNamedUser ==
  [][\A t \in tasks : Answering(t) =>
       /\ Cardinality(NewChats) <= 1
       /\ \A i \in NewChats :
            /\ last'.emits[i].chat = last'.chat
            /\ \E s \in LiveOf(t.other) : last'.emits[i].to = {s}
       /\ last'.outcome # "created" => last'.emits = <<>>
       /\ last'.outcome = "created" => (NewChats # {} <=> LiveOf(t.other) # {})]_vars

\* a request of u1 created a chat with u2 and new_chat went to a connection of u2 while
\* u1 holds an open connection too
C21_Witness ==
  /\ last.op \in {"createChat", "startChat"} /\ last.outcome = "created"
  /\ participants[last.chat] = {"u1", "u2"}
  /\ \E i \in EmitsOf("new_chat") : \E s \in last.emits[i].to : conn[s].user = "u2"
  /\ \E s \in SocketIds : conn[s].open /\ conn[s].user = "u1"
  /\ \E i \in DOMAIN messages : messages[i].chat = last.chat /\ messages[i].sender = "u1"

\* C21 (as stated): whenever a request created a one-to-one chat, new_chat goes only to
\* connections of the other participant, never to one of the creator, and at least one
\* open connection of the other participant receives it
C21_NewChatAlwaysDelivered ==
  [][\A t \in tasks : (Answering(t) /\ t.pc \in {"notify", "update", "emit"}) =>
       /\ \A i \in NewChats : \A s \in last'.emits[i].to :
            conn[s].user = t.other /\ conn[s].user # t.by
       /\ LiveOf(t.other) # {} => \E i \in NewChats : last'.emits[i].to # {}]_vars

\* ---------------------------------------------------------------- C22
\* the lines initializeSocket logs when it runs without the adapter
DegradationLines == {"single-instance mode", "adapter not available"}
Logged(lines) == Cardinality({i \in DOMAIN boot.log : boot.log[i] \in lines})

\* C22: in every backplane outcome startup goes on until the server listens: no step
\* of it fails, every startup state before listening has a next step, the Redis adapter
\* is installed exactly when its two clients connected, a server without the adapter
\* logged that once, and nothing a client does afterwards writes to that log or
\* changes the adapter.
C22_BackplaneDegrades ==
  /\ [](boot.pc # "failed")
  /\ [](boot.pc # "listening" => ENABLED NextStartup)
  /\ [](boot.pc = "listening" =>
          /\ boot.adapter = "redis" <=> boot.pubsub = "connected"
          /\ boot.adapter = "memory" => Logged(DegradationLines) = 1)
  /\ [][boot.pc = "listening" => boot' = boot]_vars

\* the adapter's clients timed out, the server listens without the adapter and a
\* client connected and was answered
C22_Witness ==
  /\ boot.pc = "listening" /\ boot.pubsub = "timeout" /\ boot.adapter = "memory"
  /\ last.op = "stop_typing"
  /\ \E s \in SocketIds : conn[s].pc = "ready" /\ conn[s].open

\* ---------------------------------------------------------------- C23
\* no connection handler and no disconnect handler is suspended at an await
Quiescent ==
  /\ ~processExited
  /\ \A s \in SocketIds : conn[s].pc \notin {"updateOnline", "findChats"}
  /\ \A t \in tasks : t.kind # "disconnect"
\* the presence events the last step emitted to rooms
PresenceEmits == EmitsOf("user_online") \cup EmitsOf("user_offline")

\* C23: in a quiescent state reached by a step that emitted a presence event about user
\* U to a room (that event is then the most recent one), the event is user_online
\* exactly when the registry holds a connection of U.
C23_LastPresenceMatchesRegistry ==
  (Quiescent /\ last.op \in {"connection", "disconnect"} /\ PresenceEmits # {}) =>
    \A i \in PresenceEmits :
      last.emits[i].ev = "user_online" <=> HasEntry(connectedUsers, UserOf(last.sock))

\* ---------------------------------------------------------------- C24
\* C24: in every quiescent state the stored isOnline of a user is true exactly when
\* the registry holds a connection of that user.
C24_StoredPresenceMatchesRegistry ==
  Quiescent => \A u \in Users : isOnline[u] <=> HasEntry(connectedUsers, u)

\* ---------------------------------------------------------------- C25
\* connection s sent a send_message that has no answer yet
Unanswered(s) ==
  \/ \E t \in tasks : t.kind = "send_message" /\ t.sock = s
  \/ last.op = "send_message" /\ last.sock = s /\ last.outcome = "dropped"
\* the last step emitted message_sent or error to connection s
AnsweredTo(s) ==
  \E i \in EmitsOf("message_sent") \cup EmitsOf("error") : last.emits[i].to = {s}

\* C25: a send_message that a connection sent after its handshake succeeded is
\* eventually answered with message_sent or error, unless the connection closes
\* first.
C25_SendEventuallyAnswered ==
  \A s \in SocketIds : Unanswered(s) ~> (AnsweredTo(s) \/ ~conn[s].open)

\* ---------------------------------------------------------------- C26
\* no handler that sends or deletes a message is suspended at an await
NoMessageOp == \A t \in tasks : t.kind \notin {"send_message", "sendMessage", "deleteMessage"}
\* the messages of chat c that this run created
SentIn(c) == {m \in Range(messages) : m.chat = c /\ m.id > 0}
\* the send that created message m ran to its end: its new_message reached a connection
Announced(m) == \E s \in SocketIds : m.id \in Range(inbox[s])

\* C26: once the sends on a chat have all run to their end (at least two of them, each
\* announced by its new_message) and no message handler is in flight, the chat's
\* lastMessage is the message created last.
C26_LastMessageIsNewest ==
  \A c \in Chats :
    (NoMessageOp /\ Cardinality(SentIn(c)) >= 2 /\ \A m \in SentIn(c) : Announced(m))
      => lastMessage[c] = Newest(messages, c)

\* ---------------------------------------------------------------- C27
\* C27: with no message handler in flight, the lastMessage of a chat is unset or is
\* the _id of a stored message of that chat.
C27_LastMessageExists ==
  NoMessageOp =>
    \A c \in Chats :
      lastMessage[c] = 0 \/ \E m \in Range(messages) : m.id = lastMessage[c] /\ m.chat = c

\* ---------------------------------------------------------------- C28
\* the one-to-one chats that are stored
OneToOne == {c \in Chats : chatDoc[c].exists /\ ~chatDoc[c].isGroup}

\* C28: no two stored one-to-one chats have the same pair of (two different)
\* participants.
C28_OneChatPerPair ==
  \A c \in OneToOne, d \in OneToOne :
    (participants[c] = participants[d] /\ Cardinality(participants[c]) = 2) => c = d

\* ---------------------------------------------------------------- C29
\* C29: every stored group chat has at least one participant and its admin is one of
\* its participants; a removeParticipant request that removed the admin left the role
\* with a remaining participant or deleted the chat.
C29_AdminIsParticipant ==
  /\ \A c \in GroupChats : participants[c] # {} /\ ChatAdmin(c) \in participants[c]
  /\ (last.op = "removeParticipant" /\ last.outcome = "deleted") => ~chatDoc[last.chat].exists

\* the admin u2 of c1 was removed and the role went to a remaining participant
C29_Witness ==
  /\ last.op = "removeParticipant" /\ last.outcome = "ok" /\ last.chat = "c1"
  /\ "u2" \notin participants["c1"]
  /\ ChatAdmin("c1") \in participants["c1"] \ {"u2"}

\* the users that removeParticipant took out of chat c while their connections stayed in
\* its room (the runs start with exactly the participants' connections in the room, and
\* nobody is added)
RemovedFrom(c) == {conn[s].user : s \in rooms[c]} \ participants[c]

\* C30 (as claimed): once removeParticipant has removed a user from a group chat, a
\* new_message, user_typing or messages_read event of that chat that is sent afterwards
\* reaches no connection of that user, even one that was in the chat's room before.
C30_RemovedReceivesNothing ==
  \A i \in DOMAIN last.emits :
    (last.emits[i].ev \in {"new_message", "user_typing", "messages_read"}
       /\ last.emits[i].chat \in Chats)
    => \A s \in last.emits[i].to : conn[s].user \notin RemovedFrom(last.emits[i].chat)

====
